---- MODULE Spec2Model ----
(***************************************************************************)
(* The unified chat-completion proxy of the gateway                        *)
(* (POST /api/backends/chat-completions/generate) as a state machine.      *)
(*                                                                         *)
(* A text is a sequence of one-character strings (one per UTF-16 code      *)
(* unit).  A character outside ASCII is written as the token "uXXXX" of    *)
(* its code point; such a token counts as ONE character.                   *)
(***************************************************************************)
EXTENDS Integers, Sequences, FiniteSets, TLC

(***************************************************************************)
(* Characters and elementary string functions of JavaScript.               *)
(***************************************************************************)
Digits == {"0", "1", "2", "3", "4", "5", "6", "7", "8", "9"}

\* what \s matches (the members that occur in the texts of the model)
WhiteSpace == {" ", "\n", "\t"}

\* what "." does not match in a regular expression without the s flag
LineTerminators == {"\n"}

Empty == << >>

Max(a, b) == IF a >= b THEN a ELSE b

Min(a, b) == IF a <= b THEN a ELSE b

\* the greatest and the least member of a set of positions, 0 for the empty set
Greatest(S) == IF S = {} THEN 0 ELSE CHOOSE i \in S : \A j \in S : j <= i

Least(S) == IF S = {} THEN 0 ELSE CHOOSE i \in S : \A j \in S : i <= j

\* a text as a condition: '' is false
Truthy(text) == text # Empty

\* a || b on texts
Or(a, b) == IF Truthy(a) THEN a ELSE b

\* a || b on keys
OrKey(a, b) == IF a # "" THEN a ELSE b

\* s.slice(0, n)
Slice0(s, n) == SubSeq(s, 1, Min(Len(s), n))

\* s.slice(k) with k counted from 1: the characters from position k on
From(s, k) == SubSeq(s, k, Len(s))

\* lit occurs in s at position i
MatchAt(s, i, lit) ==
  /\ i >= 1
  /\ i + Len(lit) - 1 <= Len(s)
  /\ \A k \in 1..Len(lit) : s[i + k - 1] = lit[k]

\* s.includes(lit)
Contains(s, lit) == \E i \in 1..(Len(s) + 1) : MatchAt(s, i, lit)

\* String.prototype.trim
TrimStart(s) ==
  IF \A i \in 1..Len(s) : s[i] \in WhiteSpace
    THEN Empty
    ELSE From(s, CHOOSE i \in 1..Len(s) :
                   /\ s[i] \notin WhiteSpace
                   /\ \A k \in 1..(i - 1) : s[k] \in WhiteSpace)

TrimEnd(s) ==
  IF \A i \in 1..Len(s) : s[i] \in WhiteSpace
    THEN Empty
    ELSE SubSeq(s, 1, CHOOSE i \in 1..Len(s) :
                        /\ s[i] \notin WhiteSpace
                        /\ \A k \in (i + 1)..Len(s) : s[k] \in WhiteSpace)

Trim(s) == TrimEnd(TrimStart(s))

\* arr.join(sep) for an array of texts
RECURSIVE Join(_, _)
Join(arr, sep) ==
  IF Len(arr) = 0 THEN Empty
  ELSE IF Len(arr) = 1 THEN arr[1]
  ELSE arr[1] \o sep \o Join(Tail(arr), sep)

\* String(n) for an integer n
DigitChar(d) == <<"0", "1", "2", "3", "4", "5", "6", "7", "8", "9">>[d + 1]

RECURSIVE NatToText(_)
NatToText(n) ==
  IF n < 10 THEN <<DigitChar(n)>>
  ELSE NatToText(n \div 10) \o <<DigitChar(n % 10)>>

NumToText(n) == IF n < 0 THEN <<"-">> \o NatToText(0 - n) ELSE NatToText(n)

DigitVal(c) == CHOOSE d \in 0..9 : DigitChar(d) = c

(***************************************************************************)
(* Intent detection (isMathIntentText / oc_isMathIntent).                  *)
(***************************************************************************)
\* "只回答数字"
NumbersOnlyZH == <<"u53EA", "u56DE", "u7B54", "u6570", "u5B57">>

\* "只输出"
OutputOnlyZH == <<"u53EA", "u8F93", "u51FA">>

\* the class [\d\s\+\-\/*()=]
MathIntentClass == Digits \cup WhiteSpace \cup {"+", "-", "/", "*", "(", ")", "="}

\* the least number of class characters in a row that counts as a formula
MathRunLen == 3

\* /只回答数字|只输出|=\?|[\d\s\+\-\/*()=]{3,}/.test(s)
isMathIntentText(s) ==
  \/ Contains(s, NumbersOnlyZH)
  \/ Contains(s, OutputOnlyZH)
  \/ Contains(s, <<"=", "?">>)
  \/ \E i \in 1..Len(s) :
       /\ i + MathRunLen - 1 <= Len(s)
       /\ \A k \in i..(i + MathRunLen - 1) : s[k] \in MathIntentClass

(***************************************************************************)
(* The local evaluator (tryEvalMath / oc_tryEvalMath).                     *)
(*                                                                         *)
(* Function(`"use strict"; return (${candidate})`)() is modelled by a      *)
(* parser and evaluator of the JavaScript expressions the candidate's      *)
(* alphabet can spell, over the integers: literals, unary and binary + -,  *)
(* binary * and /, parentheses, white space.  A result is                  *)
(*   "num"        an integer value v,                                      *)
(*   "nonfinite"  Infinity, -Infinity or NaN (a division by zero),         *)
(*   "err"        a SyntaxError or a run-time exception,                   *)
(*   "unmodelled" an expression outside the integers (a decimal point, a   *)
(*                quotient that is no integer, **, a comment, arithmetic   *)
(*                on a non-finite value); no text of the model is one.     *)
(***************************************************************************)
\* the class [\d\s\+\-\/*().]
EvalClass == Digits \cup WhiteSpace \cup {"+", "-", "/", "*", "(", ")", "."}

\* the candidate is at most this long: {1,120}
MaxCandidateLen == 120

Res(k, v, p) == [k |-> k, v |-> v, p |-> p]

RECURSIVE SkipWs(_, _)
SkipWs(s, p) == IF p <= Len(s) /\ s[p] \in WhiteSpace THEN SkipWs(s, p + 1) ELSE p

CharAt(s, p) == IF p >= 1 /\ p <= Len(s) THEN s[p] ELSE "EOF"

Abs(n) == IF n < 0 THEN 0 - n ELSE n

\* a op b on two results; the result ends at position p
Apply(op, a, b, p) ==
  IF a.k = "err" \/ b.k = "err" THEN Res("err", 0, p)
  ELSE IF a.k # "num" \/ b.k # "num" THEN Res("unmodelled", 0, p)
  ELSE IF op = "+" THEN Res("num", a.v + b.v, p)
  ELSE IF op = "-" THEN Res("num", a.v - b.v, p)
  ELSE IF op = "*" THEN Res("num", a.v * b.v, p)
  ELSE IF b.v = 0 THEN Res("nonfinite", 0, p)
  ELSE IF Abs(a.v) % Abs(b.v) # 0 THEN Res("unmodelled", 0, p)
  ELSE Res("num",
           (IF (a.v < 0) = (b.v < 0) THEN 1 ELSE -1) * (Abs(a.v) \div Abs(b.v)),
           p)

RECURSIVE ParseDigits(_, _, _)
ParseDigits(s, p, acc) ==
  IF CharAt(s, p) \in Digits
    THEN ParseDigits(s, p + 1, acc * 10 + DigitVal(s[p]))
    ELSE Res("num", acc, p)

RECURSIVE ParseAdditive(_, _)
RECURSIVE ParseAddRest(_, _)
RECURSIVE ParseMultiplicative(_, _)
RECURSIVE ParseMulRest(_, _)
RECURSIVE ParseUnary(_, _)

\* a literal n that a "." follows is a decimal
Literal(s, n) == IF CharAt(s, n.p) = "." THEN Res("unmodelled", 0, n.p) ELSE n

\* the expression e in parentheses, q the place after it where ")" has to stand
Closed(s, e, q) ==
  IF e.k \in {"err", "unmodelled"} THEN e
  ELSE IF CharAt(s, q) = ")" THEN Res(e.k, e.v, q + 1)
  ELSE Res("err", 0, q)

Parenthesised(s, e) == Closed(s, e, SkipWs(s, e.p))

\* Number literal or parenthesised expression at the character c of position p
ParsePrimary(s, p, c) ==
  IF c = "." THEN Res("unmodelled", 0, p)
  ELSE IF c \in Digits THEN
    \* strict mode: a literal with a leading zero is a SyntaxError
    IF c = "0" /\ CharAt(s, p + 1) \in Digits THEN Res("err", 0, p)
    ELSE Literal(s, ParseDigits(s, p, 0))
  ELSE IF c = "(" THEN Parenthesised(s, ParseAdditive(s, p + 1))
  ELSE Res("err", 0, p)

\* the sign c on the operand u
Signed(c, u) ==
  IF u.k = "num" THEN Res("num", IF c = "-" THEN 0 - u.v ELSE u.v, u.p)
  ELSE IF u.k = "nonfinite" THEN Res("unmodelled", 0, u.p)
  ELSE u

\* + x, - x; the tokens ++ and -- never have an operand they can apply to
UnaryAt(s, p, c) ==
  IF c \in {"+", "-"} THEN
    IF CharAt(s, p + 1) = c THEN Res("err", 0, p)
    ELSE Signed(c, ParseUnary(s, p + 1))
  ELSE ParsePrimary(s, p, c)

UnaryFrom(s, p) == UnaryAt(s, p, CharAt(s, p))

ParseUnary(s, p0) == UnaryFrom(s, SkipWs(s, p0))

\* acc c b, and what follows
MulStep(s, c, acc, b) == ParseMulRest(s, Apply(c, acc, b, b.p))

MulAt(s, acc, p, c) ==
  IF acc.k \in {"err", "unmodelled"} THEN acc
  ELSE IF c \in {"*", "/"} THEN
    IF c = "*" /\ CharAt(s, p + 1) = "*" THEN Res("unmodelled", 0, p)
    ELSE IF c = "/" /\ CharAt(s, p + 1) \in {"/", "*"} THEN Res("unmodelled", 0, p)
    ELSE MulStep(s, c, acc, ParseUnary(s, p + 1))
  ELSE acc

MulFrom(s, acc, p) == MulAt(s, acc, p, CharAt(s, p))

ParseMulRest(s, acc) == MulFrom(s, acc, SkipWs(s, acc.p))

ParseMultiplicative(s, p) == ParseMulRest(s, ParseUnary(s, p))

\* acc c b, and what follows
AddStep(s, c, acc, b) == ParseAddRest(s, Apply(c, acc, b, b.p))

AddAt(s, acc, p, c) ==
  IF acc.k \in {"err", "unmodelled"} THEN acc
  ELSE IF c \in {"+", "-"} THEN
    IF CharAt(s, p + 1) = c THEN Res("err", 0, p)
    ELSE AddStep(s, c, acc, ParseMultiplicative(s, p + 1))
  ELSE acc

AddFrom(s, acc, p) == AddAt(s, acc, p, CharAt(s, p))

ParseAddRest(s, acc) == AddFrom(s, acc, SkipWs(s, acc.p))

ParseAdditive(s, p) == ParseAddRest(s, ParseMultiplicative(s, p))

\* the whole of src has to be the expression e
Whole(src, e) ==
  IF e.k \in {"err", "unmodelled"} THEN e
  ELSE IF SkipWs(src, e.p) = Len(src) + 1 THEN e
  ELSE Res("err", 0, e.p)

Program(src) == Whole(src, ParseAdditive(src, 1))

\* Function(`"use strict"; return (${candidate})`)()
EvalJS(candidate) == Program(<<"(">> \o candidate \o <<")">>)

\* s.replace(/，/g, ',').replace(/．/g, '.')
ReplaceWide(s) ==
  [i \in 1..Len(s) |-> IF s[i] = "uFF0C" THEN "," ELSE IF s[i] = "uFF0E" THEN "." ELSE s[i]]

\* s.match(/([\d\s\+\-\/*().]{1,120})/): the leftmost, longest run of class characters
RECURSIVE RunEnd(_, _, _)
RunEnd(s, p, n) ==
  IF n < MaxCandidateLen /\ p + 1 <= Len(s) /\ s[p + 1] \in EvalClass
    THEN RunEnd(s, p + 1, n + 1)
    ELSE p

HasCandidate(s) == \E i \in 1..Len(s) : s[i] \in EvalClass

\* the run of class characters that begins at i
RunFrom(s, i) == SubSeq(s, i, RunEnd(s, i, 1))

Candidate(s) ==
  RunFrom(s, CHOOSE i \in 1..Len(s) :
               /\ s[i] \in EvalClass
               /\ \A k \in 1..(i - 1) : s[k] \notin EvalClass)

\* the value null
Null == <<"null">>

\* Number.isFinite(val) ? String(val) : null
Finite(e) == IF e.k = "num" THEN NumToText(e.v) ELSE Null

Evaluated(s) == IF ~HasCandidate(s) THEN Null ELSE Finite(EvalJS(Candidate(s)))

\* tryEvalMath(expr): the result as a text, or null
tryEvalMath(expr) == Evaluated(ReplaceWide(expr))

(***************************************************************************)
(* scrubMeta: SillyTavern's meta prompts are removed from a text.          *)
(***************************************************************************)
UpperLetters == <<"A", "B", "C", "D", "E", "F", "G", "H", "I", "J", "K", "L", "M",
                  "N", "O", "P", "Q", "R", "S", "T", "U", "V", "W", "X", "Y", "Z">>

LowerLetters == <<"a", "b", "c", "d", "e", "f", "g", "h", "i", "j", "k", "l", "m",
                  "n", "o", "p", "q", "r", "s", "t", "u", "v", "w", "x", "y", "z">>

\* the i flag: characters are compared in one case
LowerChar(c) ==
  IF \E i \in 1..26 : UpperLetters[i] = c
    THEN LowerLetters[CHOOSE i \in 1..26 : UpperLetters[i] = c]
    ELSE c

MatchAtCI(s, i, lit) ==
  /\ i >= 1
  /\ i + Len(lit) - 1 <= Len(s)
  /\ \A k \in 1..Len(lit) : LowerChar(s[i + k - 1]) = LowerChar(lit[k])

\* the alternatives of the first pattern that are literals
MetaLiterals == <<
  <<"[", "S", "t", "a", "r", "t", " ", "a", " ", "n", "e", "w", " ", "C", "h", "a", "t", "]">>,
  <<"[", "S", "t", "a", "r", "t", " ", "a", " ", "n", "e", "w", " ", "g", "r", "o", "u", "p", " ", "c", "h", "a", "t", ".", "]">>,
  <<"[", "E", "x", "a", "m", "p", "l", "e", " ", "C", "h", "a", "t", "]">> >>

\* the alternatives that run on to the next "]": [Continue your last message[^\]]*] ...
MetaPrefixes == <<
  <<"[", "C", "o", "n", "t", "i", "n", "u", "e", " ", "y", "o", "u", "r", " ", "l", "a", "s", "t", " ", "m", "e", "s", "s", "a", "g", "e">>,
  <<"[", "W", "r", "i", "t", "e", " ", "t", "h", "e", " ", "n", "e", "x", "t", " ", "r", "e", "p", "l", "y">> >>

\* the position of the first "]" at or after p, 0 when there is none
RECURSIVE NextClose(_, _)
NextClose(s, p) ==
  IF p > Len(s) THEN 0 ELSE IF s[p] = "]" THEN p ELSE NextClose(s, p + 1)

\* the end of the match of the first pattern at position i, 0 when it does not match
\* (the alternatives are tried in the order they are written)
MetaMatchEnd(s, i) ==
  IF \E n \in 1..Len(MetaLiterals) : MatchAtCI(s, i, MetaLiterals[n])
    THEN LET n == CHOOSE n \in 1..Len(MetaLiterals) :
                    /\ MatchAtCI(s, i, MetaLiterals[n])
                    /\ \A m \in 1..(n - 1) : ~MatchAtCI(s, i, MetaLiterals[m])
         IN  i + Len(MetaLiterals[n]) - 1
  ELSE IF \E n \in 1..Len(MetaPrefixes) : MatchAtCI(s, i, MetaPrefixes[n])
    THEN LET n == CHOOSE n \in 1..Len(MetaPrefixes) :
                    /\ MatchAtCI(s, i, MetaPrefixes[n])
                    /\ \A m \in 1..(n - 1) : ~MatchAtCI(s, i, MetaPrefixes[m])
         IN  NextClose(s, i + Len(MetaPrefixes[n]))
  ELSE 0

\* t.replace(patterns, ''): every match, left to right, is removed
RECURSIVE RemoveMeta(_, _)
RemoveMeta(s, i) ==
  IF i > Len(s) THEN Empty
  ELSE IF MetaMatchEnd(s, i) > 0 THEN RemoveMeta(s, MetaMatchEnd(s, i) + 1)
  ELSE <<s[i]>> \o RemoveMeta(s, i + 1)

\* ^ with the m flag
AtLineStart(s, i) == i = 1 \/ s[i - 1] \in LineTerminators

\* $ with the m flag, seen from the last character matched
AtLineEnd(s, e) == e = Len(s) \/ s[e + 1] \in LineTerminators

\* the end of \s*$ after the "]" at position k: the longest run of white space
\* after k that ends a line, 0 when there is none
WsLineEnd(s, k) ==
  Greatest({e \in k..Len(s) :
              /\ \A x \in (k + 1)..e : s[x] \in WhiteSpace
              /\ AtLineEnd(s, e)})

\* the end of the match of /^\s*\[.*?\]\s*$/ at position i, 0 when it does not match
\* the first "]" after the "[" at position j that ends the line, 0 when there is none
FirstClose(s, j) ==
  Least({k \in (j + 1)..Len(s) :
           /\ s[k] = "]"
           /\ \A x \in (j + 1)..(k - 1) : s[x] \notin LineTerminators
           /\ WsLineEnd(s, k) > 0})

BracketLineFrom(s, i, j, k) ==
  IF AtLineStart(s, i) /\ CharAt(s, j) = "[" /\ k > 0 THEN WsLineEnd(s, k) ELSE 0

BracketLineAt(s, i, j) == BracketLineFrom(s, i, j, FirstClose(s, j))

BracketLineEnd(s, i) == BracketLineAt(s, i, SkipWs(s, i))

\* .replace(/^\s*\[.*?\]\s*$/gmi, '')
RECURSIVE RemoveBracketLines(_, _)
RECURSIVE RemoveBracketLinesAt(_, _, _)
RemoveBracketLinesAt(s, i, e) ==
  IF e > 0 THEN RemoveBracketLines(s, e + 1)
  ELSE <<s[i]>> \o RemoveBracketLines(s, i + 1)

RemoveBracketLines(s, i) ==
  IF i > Len(s) THEN Empty ELSE RemoveBracketLinesAt(s, i, BracketLineEnd(s, i))

scrubMeta(text) == Trim(RemoveBracketLines(RemoveMeta(text, 1), 1))

\* /(剧情推进|继续剧情|推进剧情|采取行动|继续(?!\S)|继续下去|继续写|接着|推动剧情|推进|
\*   展开(剧情|故事)?|下一步|采取(行动|下一步))/: the alternatives that are literals;
\* 展开(剧情|故事)? matches wherever 展开 does, 采取(行动|下一步) where 采取行动 or
\* 采取 followed by 下一步 does
StoryLiterals == {
  <<"u5267", "u60C5", "u63A8", "u8FDB">>,
  <<"u7EE7", "u7EED", "u5267", "u60C5">>,
  <<"u63A8", "u8FDB", "u5267", "u60C5">>,
  <<"u91C7", "u53D6", "u884C", "u52A8">>,
  <<"u7EE7", "u7EED", "u4E0B", "u53BB">>,
  <<"u7EE7", "u7EED", "u5199">>,
  <<"u63A5", "u7740">>,
  <<"u63A8", "u52A8", "u5267", "u60C5">>,
  <<"u63A8", "u8FDB">>,
  <<"u5C55", "u5F00">>,
  <<"u4E0B", "u4E00", "u6B65">> }

\* "继续"
ContinueZH == <<"u7EE7", "u7EED">>

\* 继续(?!\S): 继续 at the end of the text or before white space
isStoryIntentText(s) ==
  \/ \E lit \in StoryLiterals : Contains(s, lit)
  \/ \E i \in 1..Len(s) :
       /\ MatchAt(s, i, ContinueZH)
       /\ (i + Len(ContinueZH) > Len(s) \/ s[i + Len(ContinueZH)] \in WhiteSpace)

(***************************************************************************)
(* The request: messages of arbitrary laxness.                             *)
(*                                                                         *)
(* A content is a string (t = "str", s), an array of parts (t = "arr",     *)
(* parts), an object with text and content fields (t = "obj", s and c) or  *)
(* absent (t = "none").  A part is a string, an object or null.  A message *)
(* is null (isNull) or an object with a role and a content.                *)
(***************************************************************************)
StrContent(s) == [s |-> s, c |-> Empty, t |-> "str", parts |-> << >>]

ObjContent(text, content) == [s |-> text, c |-> content, t |-> "obj", parts |-> << >>]

ArrContent(parts) == [s |-> Empty, c |-> Empty, t |-> "arr", parts |-> parts]

NoContent == [s |-> Empty, c |-> Empty, t |-> "none", parts |-> << >>]

StrPart(s) == [s |-> s, c |-> Empty, t |-> "str"]

ObjPart(text, content) == [s |-> text, c |-> content, t |-> "obj"]

NullPart == [s |-> Empty, c |-> Empty, t |-> "null"]

Msg(role, content) == [content |-> content, role |-> role, isNull |-> FALSE]

NullMsg == [content |-> NoContent, role |-> Empty, isNull |-> TRUE]

\* s.toLowerCase()
ToLowerCase(s) == [i \in 1..Len(s) |-> LowerChar(s[i])]

\* x.text || x.content || ''
TextOrContent(x) == IF x.s # Empty THEN x.s ELSE x.c

\* p => (typeof p === 'string' ? p : (p && (p.text || p.content || ''))), as join('') prints it
PartText(p) ==
  IF p.t = "str" THEN p.s ELSE IF p.t = "obj" THEN TextOrContent(p) ELSE Empty

\* c.map(...).join('')
RECURSIVE JoinParts(_)
JoinParts(parts) ==
  IF Len(parts) = 0 THEN Empty ELSE PartText(parts[1]) \o JoinParts(Tail(parts))

\* toText of the OpenAI-compatible and demo branches: the content flattened, nothing scrubbed
oc_toText(m) ==
  IF m.isNull THEN Empty
  ELSE IF m.content.t = "str" THEN m.content.s
  ELSE IF m.content.t = "arr" THEN JoinParts(m.content.parts)
  ELSE IF m.content.t = "obj" THEN TextOrContent(m.content)
  ELSE Empty

\* toText of the Gemini branch: the content flattened and scrubbed
toText(m) == scrubMeta(oc_toText(m))

ObjectObject == <<"[", "o", "b", "j", "e", "c", "t", " ", "O", "b", "j", "e", "c", "t", "]">>

\* String(p) of an array element, as Array.prototype.toString prints it
PartString(p) ==
  IF p.t = "str" THEN p.s ELSE IF p.t = "obj" THEN ObjectObject ELSE Empty

RECURSIVE JoinPartStrings(_)
JoinPartStrings(parts) ==
  IF Len(parts) = 0 THEN Empty
  ELSE IF Len(parts) = 1 THEN PartString(parts[1])
  ELSE PartString(parts[1]) \o <<",">> \o JoinPartStrings(Tail(parts))

\* String(content || '')
ContentString(c) ==
  IF c.t = "str" THEN c.s
  ELSE IF c.t = "arr" THEN JoinPartStrings(c.parts)
  ELSE IF c.t = "obj" THEN ObjectObject
  ELSE Empty

\* m.role of a message that is an object, lower-cased
RoleOf(m) == ToLowerCase(m.role)

UserRole == <<"u", "s", "e", "r">>

AssistantRole == <<"a", "s", "s", "i", "s", "t", "a", "n", "t">>

SystemRole == <<"s", "y", "s", "t", "e", "m">>

\* m.role of a null entry raises a TypeError
HasNullEntry(messages) == \E i \in 1..Len(messages) : messages[i].isNull

\* messages.slice().reverse().find(m => role === 'user'): its index, 0 when there is none
LastUserIndex(messages) ==
  Greatest({i \in 1..Len(messages) : RoleOf(messages[i]) = UserRole})

\* getLastNonEmptyText(arr), for the toText of the branch
LastNonEmptyIndex(texts) == Greatest({i \in 1..Len(texts) : Trim(texts[i]) # Empty})

\* the text at position k trimmed, '' for position 0
TrimmedAt(texts, k) == IF k = 0 THEN Empty ELSE Trim(texts[k])

LastNonEmpty(texts) == TrimmedAt(texts, LastNonEmptyIndex(texts))

getLastNonEmptyText(messages) ==
  LastNonEmpty([i \in 1..Len(messages) |-> toText(messages[i])])

oc_getLastNonEmptyText(messages) ==
  LastNonEmpty([i \in 1..Len(messages) |-> oc_toText(messages[i])])

(***************************************************************************)
(* decodeURIComponent of the x-st-last-input header.  The escapes of the   *)
(* model's headers are decoded; any other "%" is malformed, the URIError   *)
(* is caught and the header is used as it came.                            *)
(***************************************************************************)
Escapes == << <<"2", "B", "+">>, <<"2", "0", " ">>, <<"2", "A", "*">> >>

EscapeAt(s, i) ==
  {n \in 1..Len(Escapes) :
     /\ i + 2 <= Len(s)
     /\ s[i + 1] = Escapes[n][1]
     /\ s[i + 2] = Escapes[n][2]}

Malformed(s) == \E i \in 1..Len(s) : s[i] = "%" /\ EscapeAt(s, i) = {}

RECURSIVE DecodeFrom(_, _)
DecodeFrom(s, i) ==
  IF i > Len(s) THEN Empty
  ELSE IF s[i] = "%"
    THEN <<Escapes[CHOOSE n \in EscapeAt(s, i) : TRUE][3]>> \o DecodeFrom(s, i + 3)
    ELSE <<s[i]>> \o DecodeFrom(s, i + 1)

\* try { decodeURIComponent(hdr) } catch { hdr }
DecodeHeader(hdr) == IF Malformed(hdr) THEN hdr ELSE DecodeFrom(hdr, 1)

(***************************************************************************)
(* State.                                                                  *)
(***************************************************************************)
VARIABLES
  config,    \* the process configuration (config.js), read from the environment at start
  secrets,   \* the secret store: secrets[scope][keyType], "" when there is no entry
  env,       \* process.env: the keys and base URL the process was started with
  req,       \* the request being handled: body, headers, cookie
  pc,        \* where the handler is: "idle", "gemini_fetch", "gemini_reply",
             \* "openai_fetch", "passthrough", "done"
  loop,      \* the locals of fetchWithRetries: i, lastStatus, lastTxt, lastErrTxt
  r1,        \* what fetchWithRetries returned
  res,       \* the response as written so far
  calls,     \* the upstream calls made for the request, in order
  delays,    \* the backoff delays slept, in order
  last,      \* history: the outcome of the last upstream attempt
  attempts,  \* history: the outcomes of the upstream attempts, in order
  lastDiag,  \* __LAST_LLM_DIAG
  parked,    \* a second request in flight: its handler's locals while the other runs
  canon,     \* a message and the texts derived from it by flattening, again and again
  db,        \* the database file: users, entitlements, presets
  clock,     \* Date.now(), in days
  cookies,   \* the st_access tokens issued so far, as their payloads' uid
  pg,        \* the PostgreSQL tables: the rows of st_presets
  vault,     \* the secrets of the database file: per user and key the array of entries
  returned,  \* what the last storage call returned, from each adapter
  served     \* the response of the last account or preset call, with its history

\* what lies apart from the generate handler
\* what the account and preset handlers work on
store == <<db, clock, cookies, served>>

\* what the storage adapters work on when called by themselves
aside == <<pg, vault, returned>>

apart == <<canon, store, aside>>

\* what no step of the generate handler touches
others == <<parked, apart>>

vars == <<config, secrets, env, req, pc, loop, r1, res, calls, delays, last, attempts,
          lastDiag, others>>

(***************************************************************************)
(* Upstream responses.                                                     *)
(*                                                                         *)
(* A body is JSON (tag "json": val is what JSON.parse gives) or a text     *)
(* that is no JSON (tag "text": chars, an error page or nothing).  The     *)
(* value of a Gemini reply has candidates, each a sequence of part texts,  *)
(* and output_text; the value of an OpenAI reply has content.              *)
(***************************************************************************)
JsonVal(cands, out, content) ==
  [content |-> content, candidates |-> cands, output_text |-> out]

NoVal == JsonVal(<< >>, Empty, Empty)

JsonBody(val) == [val |-> val, tag |-> "json", chars |-> Empty]

TextBody(chars) == [val |-> NoVal, tag |-> "text", chars |-> chars]

\* an attempt: a response with its body read ("resp"), a response whose body could
\* not be read ("bodyfail"), or no connection ("connfail")
Resp(status, body) == [status |-> status, body |-> body, kind |-> "resp", err |-> Empty]

BodyFail(status, err) ==
  [status |-> status, body |-> TextBody(Empty), kind |-> "bodyfail", err |-> err]

ConnFail(err) == [status |-> 0, body |-> TextBody(Empty), kind |-> "connfail", err |-> err]

NoAttempt == [status |-> 0, body |-> TextBody(Empty), kind |-> "none", err |-> Empty]

\* r.ok
IsOk(status) == status >= 200 /\ status <= 299

\* a loop that takes every error status for a transient one
RetryableStatusAny(status) == status >= 400

\* r.status === 429 || (r.status >= 500 && r.status <= 599)
RetryableStatus(status) == status = 429 \/ (status >= 500 /\ status <= 599)

(***************************************************************************)
(* The response.                                                           *)
(***************************************************************************)
NoRes ==
  [content |-> Empty, status |-> 0, kind |-> "none", ctype |-> "", provider |-> "",
   upstream |-> 0, message |-> Empty, json |-> NoVal, events |-> << >>,
   ended |-> FALSE, branch |-> "", fallback |-> ""]

\* res.json({ ..., choices: [{ message: { role: 'assistant', content: reply } }] })
Completion(reply, branch, fallback) ==
  [NoRes EXCEPT !.status = 200, !.ctype = "json", !.kind = "completion",
                !.content = reply, !.ended = TRUE, !.branch = branch,
                !.fallback = fallback]

\* the longest excerpt of an upstream body an error carries
ErrorExcerptLen == 500

\* an error that carries the upstream body whole
UpstreamErrorWhole(provider, status, text, branch) ==
  [NoRes EXCEPT !.status = 502, !.ctype = "json", !.kind = "upstream_error",
                !.provider = provider, !.upstream = status,
                !.message = text, !.ended = TRUE, !.branch = branch]

\* res.status(502).json({ error: true, provider, status, message: text.slice(0, 500) })
UpstreamError(provider, status, text, branch) ==
  [NoRes EXCEPT !.status = 502, !.ctype = "json", !.kind = "upstream_error",
                !.provider = provider, !.upstream = status,
                !.message = Slice0(text, ErrorExcerptLen), !.ended = TRUE,
                !.branch = branch]

GenerationFailed == <<"G", "e", "n", "e", "r", "a", "t", "i", "o", "n", " ", "f", "a", "i", "l", "e", "d">>

\* catch (e): toJsonError(Object.assign(new Error('Generation failed'), { status: 500 }))
GatewayError(branch) ==
  [NoRes EXCEPT !.status = 500, !.ctype = "json", !.kind = "gateway_error",
                !.message = GenerationFailed, !.ended = TRUE, !.branch = branch]

\* a handler that copies the branch of the last diagnostics record into its reply
PassedOnAfter(val, branch) ==
  [NoRes EXCEPT !.status = 200, !.ctype = "json", !.kind = "passed_on",
                !.json = val, !.ended = TRUE, !.branch = branch,
                !.fallback = lastDiag.branch]

\* res.json(j): the upstream reply handed on as it was parsed
PassedOn(val, branch) ==
  [NoRes EXCEPT !.status = 200, !.ctype = "json", !.kind = "passed_on",
                !.json = val, !.ended = TRUE, !.branch = branch]

\* one "data: ...\n\n" event of a stream: a chunk carrying text, the closing chunk
\* (delta {}, finish_reason stop) or the [DONE] line
ChunkEvent(text) == [text |-> text, type |-> "chunk"]

FinishEvent == [text |-> Empty, type |-> "finish"]

DoneEvent == [text |-> Empty, type |-> "done"]

\* content-type text/event-stream, the events written, res.end()
Stream(events, branch, fallback) ==
  [NoRes EXCEPT !.status = 200, !.ctype = "sse", !.kind = "stream",
                !.events = events, !.ended = TRUE, !.branch = branch,
                !.fallback = fallback]

(***************************************************************************)
(* Branch selection and what both networked branches read of the request.  *)
(***************************************************************************)
Makersuite == <<"m", "a", "k", "e", "r", "s", "u", "i", "t", "e">>

OpenAI == <<"o", "p", "e", "n", "a", "i">>

Custom == <<"c", "u", "s", "t", "o", "m">>

Generic == <<"g", "e", "n", "e", "r", "i", "c">>

OpenRouter == <<"o", "p", "e", "n", "r", "o", "u", "t", "e", "r">>

Stub == <<"s", "t", "u", "b">>

GeminiPrefix == <<"g", "e", "m", "i", "n", "i">>

\* String(body.chat_completion_source || '').toLowerCase()
source(r) == ToLowerCase(r.source)

\* String(body.model || 'stub')
model(r) == IF Truthy(r.model) THEN r.model ELSE Stub

\* source === 'makersuite' || /^gemini/i.test(model)
isGemini(r) == source(r) = Makersuite \/ MatchAtCI(model(r), 1, GeminiPrefix)

\* a selection that leaves OpenRouter out
isOpenAICompatNarrow(r) == source(r) \in {OpenAI, Custom, Generic}

\* source === 'openai' || source === 'custom' || source === 'generic' || source === 'openrouter'
isOpenAICompat(r) == source(r) \in {OpenAI, Custom, Generic, OpenRouter}

isOpenRouter(r) == source(r) = OpenRouter

\* auth?.uid || 'guest'; requireAuth gives null when the cookie holds no valid token
uid(r) == IF r.uid # "" THEN r.uid ELSE "guest"

\* findSecretValue(userId, key)?.value, '' when there is none
SecretValue(scope, key) ==
  IF scope \in DOMAIN secrets /\ key \in DOMAIN secrets[scope] THEN secrets[scope][key] ELSE ""

\* String(req.headers['x-st-last-input'] || ''), decoded when it has to stand in
HeaderText(r) == DecodeHeader(r.hdr)

(***************************************************************************)
(* The Gemini branch up to the upstream call.                              *)
(***************************************************************************)
\* (found && found.value) || process.env.MAKERSUITE_API_KEY || '', then the guest's key
apiKey(r) ==
  OrKey(OrKey(SecretValue(uid(r), "api_key_makersuite"), env.MAKERSUITE_API_KEY),
        SecretValue("guest", "api_key_makersuite"))

NoGoogleKeyMarker == <<"uFF08", "u672A", "u914D", "u7F6E", " ", "G", "o", "o", "g", "l", "e", " ", "A", "P", "I", " ", "K", "e", "y", "uFF0C", "u8FD4", "u56DE", "u6F14", "u793A", "uFF09", "u4F60", "u8BF4", "uFF1A">>

Ellipsis == <<".", ".", ".">>

\* the reply when no key is configured: the content of the last entry, whatever its role
LastContent(messages) ==
  IF Len(messages) = 0 \/ messages[Len(messages)].isNull THEN Empty
  ELSE Trim(ContentString(messages[Len(messages)].content))

NoKeyReply(r) == NoGoogleKeyMarker \o Or(LastContent(r.messages), Ellipsis)

\* messages.filter(role === 'system').map(toText).filter(Boolean).join('\n')
RECURSIVE systemTextOf(_)
systemTextOf(messages) ==
  IF Len(messages) = 0 THEN << >>
  ELSE (IF RoleOf(messages[1]) = SystemRole /\ Truthy(toText(messages[1]))
          THEN <<toText(messages[1])>> ELSE << >>) \o systemTextOf(Tail(messages))

systemText(r) == Join(systemTextOf(r.messages), <<"\n">>)

\* the message at position k, a message without content for position 0
MsgAt(messages, k) == IF k = 0 THEN Msg(Empty, NoContent) ELSE messages[k]

lastUser(messages) == MsgAt(messages, LastUserIndex(messages))

\* the text of the last user message, or the x-st-last-input header when that is empty
lastUserText(r) == Or(toText(lastUser(r.messages)), HeaderText(r))

\* lastUserText || lastAnyText, from lastUserText
Anchor(r, lut) == Or(lut, getLastNonEmptyText(r.messages))

anchorBase(r) == Anchor(r, lastUserText(r))

\* extractUserFromSystem(systemText, userName) reads userName before its const
\* declaration has run: a ReferenceError
ReadsUserNameEarly(r) == ~Truthy(anchorBase(r)) /\ Truthy(systemText(r))

\* isMathIntentText(lastUserText) || isMathIntentText(anchorBase)
MathIntent(lut, anchor) == isMathIntentText(lut) \/ isMathIntentText(anchor)

mathIntent(r) == MathIntent(lastUserText(r), anchorBase(r))

\* the x-st-intent-rule header after both rule blocks: the last value written
RuleWrites(text) ==
  IF config.strictLatestOnly \/ ~Truthy(text) THEN << >>
  ELSE (IF config.intentRuleMath /\ isMathIntentText(text) THEN <<"math">> ELSE << >>)
       \o (IF config.intentRuleStory /\ isStoryIntentText(text) THEN <<"story">> ELSE << >>)

LastOf(writes) == IF Len(writes) = 0 THEN "" ELSE writes[Len(writes)]

IntentRule(lut, anchor) == LastOf(RuleWrites(lut) \o RuleWrites(anchor))

intentRuleHeader(r) == IntentRule(lastUserText(r), anchorBase(r))

\* the short-circuit evaluating the latest user text alone
LocalMathLatest(lut, anchor) ==
  IF config.intentRuleMath /\ MathIntent(lut, anchor) THEN tryEvalMath(lut) ELSE Null

\* tryEvalMath(lastUserText || anchorBase) when the math rule is on and the intent is math
LocalMath(lut, anchor) ==
  IF config.intentRuleMath /\ MathIntent(lut, anchor)
    THEN tryEvalMath(Or(lut, anchor))
    ELSE Null

LocalMathFrom(r, lut) == LocalMath(lut, Anchor(r, lut))

localMath(r) == LocalMathFrom(r, lastUserText(r))

\* the short-circuit's answer: one chunk and [DONE], or one completion
ShortCircuit(r, answer, branch) ==
  IF r.stream
    THEN Stream(<<ChunkEvent(answer), DoneEvent>>, branch, "math-shortcircuit")
    ELSE Completion(answer, branch, "math-shortcircuit")

\* the upstream call: which adapter made it and the key it carried
Call(to, token) == [to |-> to, token |-> token]

NoLoop == [i |-> 0, lastStatus |-> 0, lastTxt |-> TextBody(Empty), lastErrTxt |-> Empty]

NoResult == [status |-> 0, body |-> TextBody(Empty), ok |-> FALSE, set |-> FALSE]

\* the handler from the request's arrival to its response or its first upstream call
GeminiStart(r) ==
  /\ lastDiag' = lastDiag
  /\ IF apiKey(r) = "" THEN
       /\ res' = Completion(NoKeyReply(r), "", "")
       /\ pc' = "done"
     ELSE IF HasNullEntry(r.messages) \/ ReadsUserNameEarly(r) THEN
       /\ res' = GatewayError("")
       /\ pc' = "done"
     ELSE \E answer \in {localMath(r)} :
       IF answer # Null THEN
         /\ res' = ShortCircuit(r, answer, "gemini")
         /\ pc' = "done"
       ELSE
         /\ res' = [NoRes EXCEPT !.branch = "gemini"]
         /\ pc' = "gemini_fetch"

(***************************************************************************)
(* fetchWithRetries, one attempt at a time.                                *)
(***************************************************************************)
\* Math.max(0, Number(config.geminiRetryCount || 0))
retries == Max(0, config.geminiRetryCount)

\* delay * Math.pow(2, i)
Backoff(i) == Max(0, config.geminiRetryDelayMs) * (2 ^ i)

\* the raw text of a body
BodyText(b) == b.chars

\* a body's text as a condition
BodyTruthy(b) == b.tag = "json" \/ Truthy(b.chars)

RequestFailed == <<"r", "e", "q", "u", "e", "s", "t", " ", "f", "a", "i", "l", "e", "d">>

\* lastTxt || lastErrTxt || 'request failed'
fallbackText(lastTxt, lastErrTxt) ==
  IF BodyTruthy(lastTxt) THEN lastTxt
  ELSE IF Truthy(lastErrTxt) THEN TextBody(lastErrTxt)
  ELSE TextBody(RequestFailed)

Result(ok, status, body) == [status |-> status, body |-> body, ok |-> ok, set |-> TRUE]

\* an attempt is followed by another one
WillRetry(o) ==
  /\ loop.i < retries
  /\ \/ o.kind \in {"connfail", "bodyfail"}
     \/ o.kind = "resp" /\ ~IsOk(o.status) /\ RetryableStatus(o.status)

\* what the loop returns when the attempt is its last
ResultOf(o) ==
  IF o.kind = "resp"
    THEN Result(IsOk(o.status), o.status, o.body)
    ELSE Result(FALSE,
                IF o.kind = "bodyfail" THEN o.status ELSE loop.lastStatus,
                fallbackText(loop.lastTxt, o.err))

\* one pass of the loop of fetchWithRetries: fetch, read the body, return or sleep
GeminiAttempt(o) ==
  /\ pc = "gemini_fetch"
  /\ calls' = Append(calls, Call("gemini", apiKey(req)))
  /\ last' = o
  /\ attempts' = Append(attempts, o)
  /\ loop' = [i          |-> IF WillRetry(o) THEN loop.i + 1 ELSE loop.i,
              lastStatus |-> IF o.kind = "connfail" THEN loop.lastStatus ELSE o.status,
              lastTxt    |-> IF o.kind = "resp" THEN o.body ELSE loop.lastTxt,
              lastErrTxt |-> IF o.kind = "resp" THEN loop.lastErrTxt ELSE o.err]
  /\ IF WillRetry(o)
       THEN /\ delays' = Append(delays, Backoff(loop.i))
            /\ UNCHANGED <<r1, pc>>
       ELSE /\ r1' = ResultOf(o)
            /\ pc' = "gemini_reply"
            /\ UNCHANGED delays
  /\ UNCHANGED <<others, config, secrets, env, req, res, lastDiag>>

(***************************************************************************)
(* The Gemini branch after the upstream call.                              *)
(***************************************************************************)
\* parts.map(p => typeof p.text === 'string' ? p.text : '').join('')
RECURSIVE Concat(_)
Concat(texts) == IF Len(texts) = 0 THEN Empty ELSE texts[1] \o Concat(Tail(texts))

\* j.candidates.map(...).filter(Boolean)
RECURSIVE byCand(_)
byCand(cands) ==
  IF Len(cands) = 0 THEN << >>
  ELSE (IF Truthy(Concat(cands[1])) THEN <<Concat(cands[1])>> ELSE << >>)
       \o byCand(Tail(cands))

aggregateText(j) == Or(Trim(Join(byCand(j.candidates), <<"\n">>)), Trim(j.output_text))

BlankReplyMarker == <<"uFF08", "u7A7A", "u767D", "u56DE", "u590D", "uFF0C", "u5DF2", "u56DE", "u663E", "uFF09", "u4F60", "u8BF4", "uFF1A">>

EmptyReplyMarker == <<"uFF08", "u7A7A", "u56DE", "u590D", "uFF09">>

\* String(toText(lastUserForEcho)).trim()
echoText(r) == Trim(toText(lastUser(r.messages)))

\* echoText ? `...${echoText}` : '...'
Echo(text) == IF Truthy(text) THEN BlankReplyMarker \o text ELSE EmptyReplyMarker

reply(r, j) == Or(aggregateText(j), Echo(echoText(r)))

\* the size of a chunk of a streamed reply
ChunkLen == 120

\* reply.match(/.{1,120}/g) || ['']: "." matches no line terminator
RECURSIVE MatchChunks(_, _)
RECURSIVE MatchFrom(_, _, _)
MatchChunks(s, i) ==
  IF i > Len(s) THEN << >>
  ELSE IF s[i] \in LineTerminators THEN MatchChunks(s, i + 1)
  ELSE MatchFrom(s, i, Min(Least({k \in i..(Len(s) + 1) :
                                    k = Len(s) + 1 \/ s[k] \in LineTerminators}) - 1,
                           i + ChunkLen - 1))

\* the match that begins at i and ends at e, and the matches after it
MatchFrom(s, i, e) == <<SubSeq(s, i, e)>> \o MatchChunks(s, e + 1)

\* a || [''] on arrays: null, the result of a match that found nothing, is false
OrNone(matches) == IF matches = << >> THEN <<Empty>> ELSE matches

Chunks(s) == OrNone(MatchChunks(s, 1))

\* the events of a streamed Gemini reply: Makersuite's shape ends with [DONE], the
\* OpenAI shape with the closing chunk and [DONE]
ChunkEvents(chunks) == [i \in 1..Len(chunks) |-> ChunkEvent(chunks[i])]

StreamEvents(r, text) ==
  ChunkEvents(Chunks(text))
    \o (IF source(r) = Makersuite THEN <<DoneEvent>> ELSE <<FinishEvent, DoneEvent>>)

Diag(branch, status) == [status |-> status, branch |-> branch]

NoDiag == Diag("", 0)

\* tryEvalMath(anchorBase) after a failure, when the x-st-intent-rule header says math
MathFallback(lut, anchor) ==
  IF IntentRule(lut, anchor) = "math" THEN tryEvalMath(anchor) ELSE Null

MathFallbackFrom(r, lut) == MathFallback(lut, Anchor(r, lut))

mathFallback(r) == MathFallbackFrom(r, lastUserText(r))

\* the reply as the caller asked for it: streamed in chunks or as one completion
Answer(r, text) ==
  IF r.stream
    THEN Stream(StreamEvents(r, text), "gemini", "")
    ELSE Completion(text, "gemini", "")

\* the handler after fetchWithRetries has returned
GeminiReply ==
  /\ pc = "gemini_reply"
  /\ pc' = "done"
  /\ IF ~r1.ok THEN
       \E answer \in {mathFallback(req)} :
         IF answer # Null
           THEN /\ res' = Completion(answer, "gemini", "math")
                /\ lastDiag' = lastDiag
           ELSE /\ res' = UpstreamError("gemini", r1.status, BodyText(r1.body), "gemini")
                /\ lastDiag' = Diag("gemini", r1.status)
     ELSE IF r1.body.tag # "json" THEN
       \* JSON.parse(r1.text) throws
       /\ res' = GatewayError("gemini")
       /\ lastDiag' = lastDiag
     ELSE
       /\ lastDiag' = Diag("gemini", 0)
       /\ res' = Answer(req, reply(req, r1.body.val))
  /\ UNCHANGED <<others, config, secrets, env, req, loop, r1, calls, delays, last, attempts>>

(***************************************************************************)
(* The OpenAI-compatible branch (OpenRouter included).                     *)
(***************************************************************************)
keyType(r) ==
  IF isOpenRouter(r) THEN "api_key_openrouter"
  ELSE IF source(r) = OpenAI THEN "api_key_openai"
  ELSE "api_key_generic"

\* the process's own key for the source
envKey(r) ==
  IF isOpenRouter(r)
    THEN OrKey(env.OPENROUTER_API_KEY, env.OPENROUTER_TOKEN)
  ELSE IF source(r) = OpenAI THEN env.OPENAI_API_KEY
  ELSE env.GENERIC_API_KEY

\* the user's key || the guest's key (for a user who is not the guest) || the process's
oc_apiKey(r) ==
  OrKey(OrKey(SecretValue(uid(r), keyType(r)),
              IF uid(r) # "guest" THEN SecretValue("guest", keyType(r)) ELSE ""),
        envKey(r))

\* proxyPassword || apiKey
token(r) == OrKey(r.proxy_password, oc_apiKey(r))

OpenRouterBaseUrl == <<"h", "t", "t", "p", "s", ":", "/", "/", "o", "p", "e", "n", "r", "o", "u", "t", "e", "r", ".", "a", "i", "/", "a", "p", "i", "/", "v", "1">>

OpenAIBaseUrl == <<"h", "t", "t", "p", "s", ":", "/", "/", "a", "p", "i", ".", "o", "p", "e", "n", "a", "i", ".", "c", "o", "m">>

FirstTruthy(texts) ==
  IF \E i \in 1..Len(texts) : Truthy(texts[i])
    THEN texts[CHOOSE i \in 1..Len(texts) :
                 Truthy(texts[i]) /\ \A k \in 1..(i - 1) : ~Truthy(texts[k])]
    ELSE Empty

baseRaw(r) ==
  IF isOpenRouter(r)
    THEN FirstTruthy(<<r.reverse_proxy, r.custom_url, OpenRouterBaseUrl>>)
    ELSE FirstTruthy(<<r.custom_url, r.reverse_proxy, env.OPENAI_COMPAT_BASE,
                       IF source(r) = OpenAI THEN OpenAIBaseUrl ELSE Empty>>)

\* s.replace(/\/$/, ''): one slash at the end is dropped
StripSlash(s) == IF Len(s) > 0 /\ s[Len(s)] = "/" THEN SubSeq(s, 1, Len(s) - 1) ELSE s

base(r) == StripSlash(baseRaw(r))

compatBranch(r) == IF isOpenRouter(r) THEN "openrouter" ELSE "openai-compat"

fallbackBranch(r) == IF isOpenRouter(r) THEN "openrouter-fallback" ELSE "openai-compat-fallback"

OpenParen == <<"uFF08">>

ProxyNotConfigured == <<"u4EE3", "u7406", "u672A", "u914D", "u7F6E", "uFF09">>

YouSaid == <<"u4F60", "u8BF4", "uFF1A">>

providerLabel(r) == IF isOpenRouter(r) THEN <<"O", "p", "e", "n", "R", "o", "u", "t", "e", "r">> ELSE <<"O", "p", "e", "n", "A", "I">>

\* the reply when no base URL is configured: the last entry's text, whatever its role
\* String(toText(messages[messages.length - 1] || {})).trim()
LastText(messages) == Trim(oc_toText(MsgAt(messages, Len(messages))))

\* userText ? `...${userText}` : '...'
Said(text) == IF Truthy(text) THEN YouSaid \o text ELSE Empty

NoBaseReply(r) ==
  OpenParen \o providerLabel(r) \o ProxyNotConfigured \o Said(LastText(r.messages))

lastUserText2(r) == Or(oc_toText(lastUser(r.messages)), HeaderText(r))

Anchor2(r, lut) == Or(lut, oc_getLastNonEmptyText(r.messages))

anchorBase2(r) == Anchor2(r, lastUserText2(r))

mathIntent2(r) == MathIntent(lastUserText2(r), anchorBase2(r))

LocalMathFrom2(r, lut) == LocalMath(lut, Anchor2(r, lut))

\* oc_tryEvalMath(lastUserText2 || anchorBase2) when the rule is on and the intent is math
localMath2(r) == LocalMathFrom2(r, lastUserText2(r))

OpenAIStart(r) ==
  IF ~Truthy(base(r)) THEN
    /\ res' = Completion(NoBaseReply(r), fallbackBranch(r), "")
    /\ lastDiag' = Diag(fallbackBranch(r), 0)
    /\ pc' = "done"
  ELSE IF HasNullEntry(r.messages) THEN
    /\ res' = GatewayError("")
    /\ lastDiag' = lastDiag
    /\ pc' = "done"
  ELSE \E answer \in {localMath2(r)} :
    /\ lastDiag' = lastDiag
    /\ IF answer # Null THEN
         /\ res' = ShortCircuit(r, answer, compatBranch(r))
         /\ pc' = "done"
       ELSE
         /\ res' = [NoRes EXCEPT !.branch = compatBranch(r)]
         /\ pc' = "openai_fetch"

\* const r = await fetch(endpoint, ...) and what follows it, up to the response or
\* the start of the passthrough
OpenAIFetch(o) ==
  /\ pc = "openai_fetch"
  /\ calls' = Append(calls, Call(compatBranch(req), token(req)))
  /\ last' = o
  /\ IF o.kind = "connfail" THEN
       \* fetch throws
       /\ res' = GatewayError(compatBranch(req))
       /\ lastDiag' = lastDiag
       /\ pc' = "done"
     ELSE IF ~IsOk(o.status) THEN
       IF o.kind = "bodyfail"
         THEN \* await r.text() throws
              /\ res' = GatewayError(compatBranch(req))
              /\ lastDiag' = lastDiag
              /\ pc' = "done"
         ELSE /\ res' = UpstreamError(compatBranch(req), o.status, BodyText(o.body),
                                      compatBranch(req))
              /\ lastDiag' = Diag(compatBranch(req), o.status)
              /\ pc' = "done"
     ELSE IF req.stream THEN
       \* the upstream body is piped to the caller as it comes
       /\ res' = [NoRes EXCEPT !.status = 200, !.ctype = "sse", !.kind = "stream",
                               !.branch = compatBranch(req)]
       /\ lastDiag' = Diag(compatBranch(req), 0)
       /\ pc' = "passthrough"
     ELSE IF o.kind = "bodyfail" \/ o.body.tag # "json" THEN
       \* await r.json() throws
       /\ res' = GatewayError(compatBranch(req))
       /\ lastDiag' = Diag(compatBranch(req), 0)
       /\ pc' = "done"
     ELSE
       /\ res' = PassedOn(o.body.val, compatBranch(req))
       /\ lastDiag' = Diag(compatBranch(req), 0)
       /\ pc' = "done"
  /\ attempts' = Append(attempts, o)
  /\ UNCHANGED <<others, config, secrets, env, req, loop, r1, delays>>

\* bodyStream.on('data', chunk => res.write(chunk))
StreamData(chunk) ==
  /\ pc = "passthrough"
  /\ res' = [res EXCEPT !.events = Append(res.events, chunk)]
  /\ UNCHANGED <<others, config, secrets, env, req, pc, loop, r1, calls, delays, last, attempts,
                 lastDiag>>

\* bodyStream.on('end', () => res.end()): the upstream body was delivered to its end
StreamEnd ==
  /\ pc = "passthrough"
  /\ last.kind = "resp"
  /\ res' = [res EXCEPT !.ended = TRUE]
  /\ pc' = "done"
  /\ UNCHANGED <<others, config, secrets, env, req, loop, r1, calls, delays, last, attempts,
                 lastDiag>>

\* bodyStream.on('error', () => res.end())
StreamError ==
  /\ pc = "passthrough"
  /\ res' = [res EXCEPT !.ended = TRUE]
  /\ last' = [last EXCEPT !.kind = "bodyfail"]
  /\ pc' = "done"
  /\ UNCHANGED <<others, config, secrets, env, req, loop, r1, calls, delays, attempts, lastDiag>>

(***************************************************************************)
(* The demo branch.                                                        *)
(***************************************************************************)
DemoMarker == <<"uFF08", "u6F14", "u793A", "u56DE", "u590D", "uFF09", "u4F60", "u8BF4", "uFF1A">>

DemoGreeting == <<"uFF08", "u6F14", "u793A", "u56DE", "u590D", "uFF09", "u4F60", "u597D", "uFF0C", "u6211", "u5728", "u8FD9", "u91CC", "u3002">>

\* userText ? `...${userText}` : '...'
DemoSaid(text) == IF Truthy(text) THEN DemoMarker \o text ELSE DemoGreeting

DemoReply(r) == DemoSaid(LastText(r.messages))

DemoAnswer(r, text) ==
  IF r.stream
    THEN Stream(<<ChunkEvent(text), DoneEvent>>, "demo", "")
    ELSE Completion(text, "demo", "")

DemoStart(r) ==
  /\ res' = DemoAnswer(r, DemoReply(r))
  /\ lastDiag' = Diag("demo", 0)
  /\ pc' = "done"

(***************************************************************************)
(* POST /api/backends/chat-completions/generate: the request arrives.      *)
(***************************************************************************)
Generate(r) ==
  /\ pc = "idle"
  /\ req' = r
  /\ IF isGemini(r) THEN GeminiStart(r)
     ELSE IF isOpenAICompat(r) THEN OpenAIStart(r)
     ELSE DemoStart(r)
  /\ UNCHANGED <<others, config, secrets, env, loop, r1, calls, delays, last, attempts>>

(***************************************************************************)
(* The inputs the model draws from.                                        *)
(***************************************************************************)
\* the largest GEMINI_RETRY_COUNT a process of the model is started with
MaxRetryCount == 2

\* the most chunks an upstream stream of the model delivers
MaxStreamChunks == 2

\* GEMINI_RETRY_DELAY_MS of the model's processes: the default
RetryDelayMs == 400

\* the configuration of a process started with INTENT_RULE_MATH, STRICT_LATEST_ONLY and
\* GEMINI_RETRY_COUNT set and every other variable left to its default
Cfg(math, strict, count) ==
  [strictLatestOnly |-> strict, intentRuleMath |-> math, intentRuleStory |-> TRUE,
   geminiRetryCount |-> count, geminiRetryDelayMs |-> RetryDelayMs,
   strictLatestDropPersona |-> FALSE, chatHistoryTurns |-> 8, intentAnchor |-> TRUE,
   intentAnchorClamp |-> 400, hardIntentAppend |-> TRUE, forceUserPriority |-> TRUE,
   enforceRightsOnLogin |-> TRUE, scrubStMetaPrompts |-> TRUE]

KeyTypes == {"api_key_makersuite", "api_key_openai", "api_key_generic", "api_key_openrouter"}

\* a secret store in which the user u1 and the guest scope do or do not hold keys
Store(userKey, guestKey) ==
  [scope \in {"u1", "guest"} |->
     [k \in KeyTypes |-> IF scope = "u1" THEN userKey ELSE guestKey]]

Env(key, compatBase) ==
  [MAKERSUITE_API_KEY |-> key, OPENROUTER_API_KEY |-> "", OPENROUTER_TOKEN |-> key,
   OPENAI_API_KEY |-> key, GENERIC_API_KEY |-> key, OPENAI_COMPAT_BASE |-> compatBase]

UpUrl == <<"h", "t", "t", "p", ":", "/", "/", "u", "p", "/">>

\* <<secrets, env>> of the processes of the model: no key anywhere, a key of the
\* user's own, and keys of the guest scope and the process with a default base URL
Deployments == {
  <<Store("", ""), Env("", Empty)>>,
  <<Store("ku", ""), Env("", Empty)>>,
  <<Store("", ""), Env("ke", Empty)>>,
  <<Store("", "kg"), Env("ke", UpUrl)>> }

TwoPlusTwo == <<"2", "+", "2", "=", "?">>

Hi == <<"h", "i">>

WhatIs == <<"w", "h", "a", "t", " ", "i", "s", " ", "2", "+", "2">>

Yo == <<"y", "o">>

BeBrief == <<"b", "e", " ", "b", "r", "i", "e", "f">>

TwoTimesThree == <<"2", "*", "3">>

Blank == <<" ">>

MessageLists == {
  << >>,
  <<Msg(UserRole, StrContent(TwoPlusTwo))>>,
  <<Msg(UserRole, StrContent(Hi))>>,
  <<Msg(SystemRole, StrContent(BeBrief)), Msg(UserRole, StrContent(Hi)),
    Msg(AssistantRole, StrContent(Yo)), Msg(UserRole, StrContent(Blank))>>,
  <<Msg(SystemRole, StrContent(TwoTimesThree))>>,
  <<NullMsg, Msg(UserRole, StrContent(TwoPlusTwo))>>,
  <<Msg(UserRole, StrContent(WhatIs))>>,
  <<Msg(<<"U", "s", "e", "r">>, ArrContent(<<StrPart(<<"1">>), ObjPart(<<"+", "1">>, Empty), NullPart>>))>> }

Request(messages, src, mdl, stream, user, hdr, customUrl, reverseProxy) ==
  [messages |-> messages, hdr |-> hdr, source |-> src, model |-> mdl, uid |-> user,
   stream |-> stream, proxy_password |-> "", reverse_proxy |-> reverseProxy,
   custom_url |-> customUrl]

Demo == <<"d", "e", "m", "o">>

Gpt4 == <<"g", "p", "t", "-", "4">>

\* the x-st-last-input header "3+3", percent-encoded
ThreePlusThree == <<"3", "%", "2", "B", "3">>

DemoRequests ==
  {Request(m, Demo, Empty, st, "", Empty, Empty, Empty) :
     m \in MessageLists, st \in BOOLEAN}

\* the Gemini branch by its source, and by its model with the header standing in
GeminiRequests ==
  {Request(m, Makersuite, Empty, st, u, Empty, Empty, Empty) :
     m \in MessageLists, st \in BOOLEAN, u \in {"u1", ""}}
  \cup {Request(<< >>, Custom, <<"G", "e", "m", "i", "n", "i", "-", "1">>, st, "u1", ThreePlusThree, Empty, Empty) :
          st \in BOOLEAN}

\* <<source, custom_url, reverse_proxy, uid>> of the requests to the OpenAI-compatible branch
CompatTargets == {
  <<OpenAI, Empty, Empty, "">>,
  <<Custom, Empty, Empty, "u1">>,
  <<Custom, UpUrl, Empty, "">>,
  <<OpenRouter, Empty, <<"/">>, "">>,
  <<OpenRouter, Empty, Empty, "u1">> }

OpenAIRequests ==
  {Request(m, t[1], Gpt4, st, t[4], Empty, t[2], t[3]) :
     m \in MessageLists, t \in CompatTargets, st \in BOOLEAN}

Requests == DemoRequests \cup GeminiRequests \cup OpenAIRequests

Down == <<"d", "o", "w", "n">>

ConnRefused == <<"E", "C", "O", "N", "N", "R", "E", "F", "U", "S", "E", "D">>

\* a reply of one candidate with one part
HiReply == JsonBody(JsonVal(<<<<Hi>>>>, Empty, Hi))

\* a text of n characters "x"
Xs(n) == [i \in 1..n |-> "x"]

\* an error page one character longer than the excerpt an error may carry
LongDown == TextBody(Xs(ErrorExcerptLen + 1))

Outcomes == {Resp(200, HiReply), Resp(500, LongDown), ConnFail(ConnRefused)}

StreamChunks == {ChunkEvent(Hi), DoneEvent}

(***************************************************************************)
(* The specification: any process, any request, a plain upstream.          *)
(***************************************************************************)
\* the locals of a handler that has not been entered
\* the database file as ensure() creates it; and as history, under saved, the preset
\* each user sent last, with its name
NoData == [users |-> << >>, entitlements |-> {}, presets |-> {}, saved |-> {}]

\* no account or preset call answered yet
NoReply ==
  [op |-> "", status |-> 0, body |-> {}, uid |-> "", token |-> "", asked |-> << >>,
   hadRights |-> FALSE, entitled |-> FALSE, redeemed |-> FALSE]

\* no storage call made yet
NoReturn ==
  [op |-> "",
   pg |-> [val |-> [kind |-> "undefined", num |-> 0, str |-> << >>, fields |-> {}], kind |-> "none",
           items |-> {}],
   file |-> [val |-> [kind |-> "undefined", num |-> 0, str |-> << >>, fields |-> {}], kind |-> "none",
             items |-> {}]]

\* no message to flatten
NoCanon == [x |-> NullMsg, texts |-> << >>, branch |-> ""]

Idle ==
  [req |-> Request(<< >>, Empty, Empty, FALSE, "", Empty, Empty, Empty), pc |-> "idle",
   loop |-> NoLoop, r1 |-> NoResult, res |-> NoRes, calls |-> << >>, delays |-> << >>,
   last |-> NoAttempt, attempts |-> << >>]

Start ==
  /\ req = Request(<< >>, Empty, Empty, FALSE, "", Empty, Empty, Empty)
  /\ pc = "idle"
  /\ loop = NoLoop
  /\ r1 = NoResult
  /\ res = NoRes
  /\ calls = << >>
  /\ delays = << >>
  /\ last = NoAttempt
  /\ attempts = << >>
  /\ lastDiag = NoDiag
  /\ parked = Idle
  /\ canon = NoCanon
  /\ db = NoData
  /\ clock = 1
  /\ cookies = {}
  /\ served = NoReply
  /\ pg = {}
  /\ vault = {}
  /\ returned = NoReturn

Init ==
  /\ config \in {Cfg(math, FALSE, count) : math \in BOOLEAN, count \in {0, MaxRetryCount}}
  /\ \E d \in Deployments : secrets = d[1] /\ env = d[2]
  /\ Start

Next ==
  \/ \E r \in Requests : Generate(r)
  \/ \E o \in Outcomes : GeminiAttempt(o)
  \/ GeminiReply
  \/ \E o \in Outcomes : OpenAIFetch(o)
  \/ \E c \in StreamChunks : Len(res.events) < MaxStreamChunks /\ StreamData(c)
  \/ StreamEnd
  \/ StreamError

Spec == Init /\ [][Next]_vars

(***************************************************************************)
(* The specification of the upstream: a process that holds every key and   *)
(* a base URL, a few requests, and an upstream that answers in every way.  *)
(***************************************************************************)
\* the requests: each adapter, streamed and not, and a request without a message
Probes ==
  {Request(<<Msg(UserRole, StrContent(Hi))>>, t[1], t[2], st, "u1", Empty, Empty, Empty) :
     t \in {<<Makersuite, Empty>>, <<Custom, <<"G", "e", "m", "i", "n", "i", "-", "1">>>>, <<Custom, Gpt4>>,
            <<OpenRouter, Gpt4>>},
     st \in BOOLEAN}
  \cup {Request(<< >>, Makersuite, Empty, FALSE, "", Empty, Empty, Empty)}

\* a reply of two candidates
TwoCandidates == JsonBody(JsonVal(<<<<<<"a">>>>, <<<<"b">>>>>>, Empty, <<"a">>))

\* a reply whose only part is blank, and a reply that has only output_text
BlankReply == JsonBody(JsonVal(<<<<Blank>>>>, Empty, Empty))

OutputTextReply == JsonBody(JsonVal(<< >>, Yo, Empty))

\* a reply one character longer than a chunk
LongReply == JsonBody(JsonVal(<<<<Xs(ChunkLen + 1)>>>>, Empty, Xs(ChunkLen + 1)))

\* a body that is no JSON
Oops == TextBody(<<"o", "o", "p", "s">>)

Aborted == <<"a", "b", "o", "r", "t", "e", "d">>

UpstreamOutcomes == {
  Resp(200, HiReply), Resp(200, TwoCandidates), Resp(200, BlankReply),
  Resp(200, OutputTextReply), Resp(200, LongReply), Resp(200, Oops),
  Resp(400, TextBody(Down)), Resp(429, TextBody(Down)),
  Resp(500, LongDown), Resp(503, TextBody(Down)),
  ConnFail(ConnRefused), ConnFail(Empty), BodyFail(200, Aborted) }

InitUpstream ==
  /\ config \in {Cfg(TRUE, FALSE, count) : count \in 0..MaxRetryCount}
  /\ secrets = Store("ku", "kg")
  /\ env = Env("ke", UpUrl)
  /\ Start

NextUpstream ==
  \/ \E r \in Probes : Generate(r)
  \/ \E o \in UpstreamOutcomes : GeminiAttempt(o)
  \/ GeminiReply
  \/ \E o \in UpstreamOutcomes : OpenAIFetch(o)
  \/ \E c \in StreamChunks : Len(res.events) < MaxStreamChunks /\ StreamData(c)
  \/ StreamEnd
  \/ StreamError

SpecUpstream == InitUpstream /\ [][NextUpstream]_vars

(***************************************************************************)
(* Two requests in flight.  Node runs one handler at a time and changes    *)
(* handler where one awaits: between the steps of the model.               *)
(***************************************************************************)
\* the locals of the handler that is running
Locals ==
  [req |-> req, pc |-> pc, loop |-> loop, r1 |-> r1, res |-> res, calls |-> calls,
   delays |-> delays, last |-> last, attempts |-> attempts]

\* the running handler awaits and the other one goes on
Switch ==
  /\ parked' = Locals
  /\ req' = parked.req
  /\ pc' = parked.pc
  /\ loop' = parked.loop
  /\ r1' = parked.r1
  /\ res' = parked.res
  /\ calls' = parked.calls
  /\ delays' = parked.delays
  /\ last' = parked.last
  /\ attempts' = parked.attempts
  /\ UNCHANGED <<config, secrets, env, lastDiag, apart>>

SharedRequests ==
  {Request(<<Msg(UserRole, StrContent(Hi))>>, t[1], t[2], FALSE, "u1", Empty, Empty, Empty) :
     t \in {<<Makersuite, Empty>>, <<Custom, Gpt4>>, <<OpenRouter, Gpt4>>, <<Demo, Empty>>}}

SharedOutcomes == {Resp(200, HiReply), Resp(500, TextBody(Down)), ConnFail(ConnRefused)}

InitShared ==
  /\ config = Cfg(TRUE, FALSE, 1)
  /\ secrets = Store("ku", "kg")
  /\ env = Env("ke", UpUrl)
  /\ Start

NextShared ==
  \/ \E r \in SharedRequests : Generate(r)
  \/ \E o \in SharedOutcomes : GeminiAttempt(o)
  \/ GeminiReply
  \/ \E o \in SharedOutcomes : OpenAIFetch(o)
  \/ Switch

SpecShared == InitShared /\ [][NextShared]_vars

(***************************************************************************)
(* What the caller receives.                                               *)
(***************************************************************************)
\* the texts of the chunk events of a stream, concatenated in the order written
RECURSIVE ChunkTexts(_)
ChunkTexts(events) ==
  IF Len(events) = 0 THEN Empty
  ELSE (IF events[1].type = "chunk" THEN events[1].text ELSE Empty)
       \o ChunkTexts(Tail(events))

\* the reply text the caller reads from the response
ReplyText ==
  IF res.kind = "completion" THEN res.content
  ELSE IF res.kind = "stream" THEN ChunkTexts(res.events)
  ELSE IF res.kind = "passed_on" THEN res.json.content
  ELSE Empty

\* the request is routed to an adapter that calls an upstream
Networked(r) == isGemini(r) \/ isOpenAICompat(r)

\* the anchor text of the request on its branch
AnchorOf(r) == IF isGemini(r) THEN anchorBase(r) ELSE anchorBase2(r)

(***************************************************************************)
(* C1.                                                                     *)
(***************************************************************************)
\* C1: for every request on a networked branch whose anchor text has math
\* intent (the math rule being enabled) and evaluates to a number, no upstream
\* call is made at any point, and the reply the caller receives is that number
\* as a string, streamed or not.
C1_MathShortCircuit ==
  (/\ pc # "idle"
   /\ Networked(req)
   /\ config.intentRuleMath
   /\ isMathIntentText(AnchorOf(req))
   /\ tryEvalMath(AnchorOf(req)) # Null)
  => /\ calls = << >>
     /\ pc = "done" => /\ res.status = 200
                       /\ ReplyText = tryEvalMath(AnchorOf(req))

(***************************************************************************)
(* C2.                                                                     *)
(***************************************************************************)
\* C2: a request on the demo branch (source "demo", no Gemini model) whose one
\* user message is "2+2=?" gets the reply "4", and no upstream call is made.
C2_DemoMath ==
  (/\ pc # "idle"
   /\ ToLowerCase(req.source) = Demo
   /\ ~isGemini(req)
   /\ req.messages = <<Msg(UserRole, StrContent(TwoPlusTwo))>>)
  => /\ calls = << >>
     /\ pc = "done" => ReplyText = <<"4">>

(***************************************************************************)
(* C3.                                                                     *)
(***************************************************************************)
\* the attempts made before the last one
Earlier == SubSeq(attempts, 1, Len(attempts) - 1)

\* the last attempt made
LastAttempt == attempts[Len(attempts)]

\* the attempt ended without a fully received response
TransportFailure(a) == a.kind \in {"connfail", "bodyfail"}

\* the attempt is a transient failure: 429, 5xx or a transport failure
Transient(a) ==
  \/ TransportFailure(a)
  \/ a.kind = "resp" /\ (a.status = 429 \/ a.status \in 500..599)

\* fetchWithRetries has returned for a Gemini request
Returned == isGemini(req) /\ r1.set

\* the status of the most recent attempt that received a status line, 0 if none
RECURSIVE StatusSeen(_)
StatusSeen(as) ==
  IF Len(as) = 0 THEN 0
  ELSE IF as[Len(as)].kind = "connfail" THEN StatusSeen(SubSeq(as, 1, Len(as) - 1))
  ELSE as[Len(as)].status

\* the text of the most recent body that was read to its end, empty if none
RECURSIVE BodySeen(_)
BodySeen(as) ==
  IF Len(as) = 0 THEN TextBody(Empty)
  ELSE IF as[Len(as)].kind = "resp" THEN as[Len(as)].body
  ELSE BodySeen(SubSeq(as, 1, Len(as) - 1))

\* how many attempts the loop may make, and that it only goes on after a
\* transient failure
C3_StopRule ==
  /\ Len(attempts) <= Max(0, config.geminiRetryCount) + 1
  /\ \A i \in 1..Len(Earlier) : Transient(Earlier[i])
  /\ Len(attempts) < Max(0, config.geminiRetryCount) + 1 => ~Transient(LastAttempt)

\* the result describes the last attempt and nothing else
C3_CarriesLast ==
  /\ LastAttempt.kind = "resp" =>
       /\ r1.ok = (LastAttempt.status \in 200..299)
       /\ r1.status = LastAttempt.status
       /\ r1.body = LastAttempt.body
  /\ TransportFailure(LastAttempt) =>
       /\ ~r1.ok
       /\ r1.status = LastAttempt.status
       /\ r1.body.chars = (IF LastAttempt.err # Empty THEN LastAttempt.err ELSE RequestFailed)

\* C3 as stated: fetchWithRetries with retry count R stops at the first attempt
\* that is not a transient failure or after R+1 attempts, and its result
\* carries the outcome of the last attempt made.
C3_AsStated == Returned => C3_StopRule /\ C3_CarriesLast

\* C3: fetchWithRetries with retry count R stops at the first attempt that is
\* not a transient failure or after R+1 attempts.  When the last attempt
\* returned a response, the result carries its status and body and is
\* successful exactly when the status is 2xx.  When the last attempt was a
\* transport failure, the result is a failure carrying the status of the most
\* recent attempt that received one (0 if none) and the most recent body read
\* to its end, or, when that is empty, the error message, or 'request failed'.
C3_RetryLoop ==
  Returned =>
    /\ C3_StopRule
    /\ LastAttempt.kind = "resp" =>
         /\ r1.ok = (LastAttempt.status \in 200..299)
         /\ r1.status = LastAttempt.status
         /\ r1.body = LastAttempt.body
    /\ TransportFailure(LastAttempt) =>
         /\ ~r1.ok
         /\ r1.status = StatusSeen(attempts)
         /\ r1.body = (IF BodySeen(attempts).tag = "json" \/ BodySeen(attempts).chars # Empty
                         THEN BodySeen(attempts)
                       ELSE IF LastAttempt.err # Empty THEN TextBody(LastAttempt.err)
                       ELSE TextBody(RequestFailed))

\* the loop has used up its retries, the last attempt failed to connect and an
\* earlier one was answered 5xx
C3_Witness ==
  /\ Returned
  /\ Len(attempts) >= 2
  /\ LastAttempt.kind = "connfail"
  /\ \E i \in 1..Len(Earlier) : Earlier[i].kind = "resp" /\ Earlier[i].status \in 500..599

(***************************************************************************)
(* C4.                                                                     *)
(***************************************************************************)
\* the request went to the OpenAI-compatible/OpenRouter adapter
OnCompat == isOpenAICompat(req) /\ ~isGemini(req)

\* the caller was answered with an error
Failed == pc = "done" /\ res.status >= 400

\* C4: on the OpenAI-compatible/OpenRouter branch a failure that follows a
\* transient upstream failure (429, 5xx, connection failure) is surfaced only
\* after the configured number of retries: R+1 attempts were made.
C4_CompatRetry ==
  (OnCompat /\ Failed /\ attempts # << >> /\ Transient(LastAttempt))
  => Len(attempts) = Max(0, config.geminiRetryCount) + 1

(***************************************************************************)
(* C5.                                                                     *)
(***************************************************************************)
\* the upstream answered 500, with a body read to its end, on every attempt
Always500 ==
  /\ attempts # << >>
  /\ \A i \in 1..Len(attempts) : attempts[i].kind = "resp" /\ attempts[i].status = 500

\* C5: when the upstream answers 500 on every attempt, the caller receives a
\* JSON error with HTTP status 502 that names the upstream status 500 and whose
\* message is the first 500 characters, at most, of the upstream body.
C5_Persistent500 ==
  (pc = "done" /\ Always500)
  => /\ res.status = 502
     /\ res.ctype = "json"
     /\ res.kind = "upstream_error"
     /\ res.upstream = 500
     /\ Len(res.message) <= 500
     /\ res.message = SubSeq(LastAttempt.body.chars, 1, Len(res.message))
     /\ Len(res.message) = 500 \/ res.message = LastAttempt.body.chars

\* the Gemini adapter has used up two retries on 500s and the error's message
\* is the body cut to 500 characters
C5_Witness ==
  /\ pc = "done"
  /\ isGemini(req)
  /\ Always500
  /\ Len(attempts) = 3
  /\ res.status = 502
  /\ Len(LastAttempt.body.chars) > 500
  /\ Len(res.message) = 500

(***************************************************************************)
(* C6.                                                                     *)
(***************************************************************************)
\* no key is stored in any scope, the process has none, the request brings none
NoCredential ==
  /\ \A scope \in DOMAIN secrets : \A k \in DOMAIN secrets[scope] : secrets[scope][k] = ""
  /\ env.MAKERSUITE_API_KEY = "" /\ env.OPENAI_API_KEY = "" /\ env.GENERIC_API_KEY = ""
  /\ env.OPENROUTER_API_KEY = "" /\ env.OPENROUTER_TOKEN = ""
  /\ req.proxy_password = ""

\* C6: for a request on a networked branch for which no credential can be
\* resolved from the user scope, the guest scope or the process defaults, no
\* upstream call is made and the response is a 200 carrying an echo reply,
\* never an error (stated for message lists whose entries are all objects).
C6_NoCredentialEcho ==
  (pc # "idle" /\ Networked(req) /\ NoCredential /\ ~HasNullEntry(req.messages))
  => /\ calls = << >>
     /\ pc = "done" => res.status = 200 /\ res.kind \in {"completion", "stream"}

(***************************************************************************)
(* C7.                                                                     *)
(***************************************************************************)
\* a complete reply: a 200 whose body was written to its end; a stream counts
\* as complete unless the upstream body broke off under it
CompleteReply ==
  /\ res.status = 200
  /\ res.ended
  /\ res.kind \in {"completion", "passed_on", "stream"}
  /\ res.kind = "stream" => last.kind # "bodyfail"

\* a structured JSON error that names the status the upstream answered with
\* (0 when no attempt received a status)
StructuredError ==
  /\ res.ctype = "json"
  /\ res.kind = "upstream_error"
  /\ res.upstream = StatusSeen(attempts)

\* C7: every request ends either in a complete reply or in a structured JSON
\* error that preserves the upstream status; never in a stream closed without
\* having been delivered to its end, never in an error without the upstream
\* status.
C7_CompleteOrStructured == pc = "done" => CompleteReply \/ StructuredError

(***************************************************************************)
(* C8.                                                                     *)
(***************************************************************************)
\* C8: whenever a request that set the streaming flag completes successfully,
\* on any branch, the response is a text/event-stream whose last event is the
\* [DONE] line, and nothing is written after [DONE].
C8_StreamEndsWithDone ==
  (pc = "done" /\ req.stream /\ res.status = 200)
  => /\ res.ctype = "sse"
     /\ res.events # << >>
     /\ res.events[Len(res.events)] = DoneEvent
     /\ \A i \in 1..(Len(res.events) - 1) : res.events[i] # DoneEvent

(***************************************************************************)
(* C9.                                                                     *)
(***************************************************************************)
\* the Gemini adapter has streamed the reply to a successful upstream answer
StreamedReply ==
  /\ pc = "done"
  /\ isGemini(req)
  /\ req.stream
  /\ r1.set /\ r1.ok
  /\ res.kind = "stream"

\* C9: for a streamed reply the texts of the chunks, concatenated in the order
\* they were written, are exactly the aggregated reply text, and every chunk
\* holds at most 120 characters.
C9_ChunksAreTheReply ==
  StreamedReply
  => /\ ChunkTexts(res.events) = reply(req, r1.body.val)
     /\ \A i \in 1..Len(res.events) : Len(res.events[i].text) <= 120

(***************************************************************************)
(* C10.                                                                    *)
(***************************************************************************)
\* the upstream answered 200 with a body the adapter could use and the caller
\* was answered 200
ProviderReplied ==
  /\ pc = "done"
  /\ Networked(req)
  /\ attempts # << >>
  /\ LastAttempt.kind = "resp"
  /\ LastAttempt.status \in 200..299
  /\ LastAttempt.body.tag = "json"
  /\ res.status = 200

\* the text the provider's reply carries for the adapter that read it
ProviderText ==
  IF isGemini(req) THEN aggregateText(LastAttempt.body.val)
  ELSE IF req.stream THEN ChunkTexts(res.events)
  ELSE LastAttempt.body.val.content

\* C10: on every successful provider reply, on either networked branch,
\* streamed or not, the reply text delivered to the caller is not empty: when
\* the provider's reply carries no text, it is the blank-reply marker followed
\* by the caller's last user text.
C10_NeverEmpty ==
  ProviderReplied
  => /\ ReplyText # Empty
     /\ (ProviderText = Empty /\ echoText(req) # Empty)
          => ReplyText = BlankReplyMarker \o echoText(req)

(***************************************************************************)
(* C11.                                                                    *)
(***************************************************************************)
\* both requests have been answered and they had the same body and headers and
\* the same answers from the upstream
SameInputs ==
  /\ pc = "done" /\ parked.pc = "done"
  /\ req = parked.req
  /\ attempts = parked.attempts

\* two requests with the same inputs get the same response, however their
\* handlers were interleaved
SameResponse == SameInputs => res = parked.res

\* the configuration, the secret store and the environment are as at the start
ProcessUntouched ==
  /\ config = Cfg(TRUE, FALSE, 1)
  /\ secrets = Store("ku", "kg")
  /\ env = Env("ke", UpUrl)

userPriorityTextEN ==
  <<"D", "i", "r", "e", "c", "t", "l", "y", " ", "r", "e", "s", "p", "o", "n", "d", " ", "t", "o", " ", "t", "h", "e", " ", "l", "a", "t", "e", "s", "t", " ", "u", "s", "e", "r", " ", "m", "e", "s", "s", "a", "g", "e", " ", "w", "i", "t", "h", "o", "u", "t", " ", "r", "e", "p", "e", "a", "t", "i", "n", "g", " ", "g", "r", "e", "e", "t", "i", "n", "g", "s", ".", " ", "I", "f", " ", "i", "t", " ", "c", "o", "n", "f", "l", "i", "c", "t", "s", " ", "w", "i", "t", "h", " ", "p", "e", "r", "s", "o", "n", "a", ",", " ", "p", "r", "i", "o", "r", "i", "t", "i", "z", "e", " ", "t", "h", "e", " ", "l", "a", "t", "e", "s", "t", " ", "u", "s", "e", "r", " ", "r", "e", "q", "u", "e", "s", "t", ".", " ", "F", "o", "r", " ", "c", "a", "l", "c", "u", "l", "a", "t", "i", "o", "n", "s", " ", "o", "r", " ", "f", "a", "c", "t", "u", "a", "l", " ", "q", "u", "e", "s", "t", "i", "o", "n", "s", ",", " ", "a", "n", "s", "w", "e", "r", " ", "d", "i", "r", "e", "c", "t", "l", "y", ".">>

intentAnchorHeadEN ==
  <<"L", "a", "t", "e", "s", "t", " ", "u", "s", "e", "r", " ", "i", "n", "t", "e", "n", "t", " ", "(", "h", "i", "g", "h", "e", "s", "t", " ", "p", "r", "i", "o", "r", "i", "t", "y", ")", ":", " ", "\"">>

intentAnchorTailEN ==
  <<"\"", ".", " ", "P", "l", "e", "a", "s", "e", " ", "s", "t", "i", "c", "k", " ", "t", "o", " ", "i", "t", " ", "t", "o", " ", "a", "d", "v", "a", "n", "c", "e", " ", "t", "h", "e", " ", "s", "c", "e", "n", "e", " ", "w", "i", "t", "h", "o", "u", "t", " ", "s", "m", "a", "l", "l", " ", "t", "a", "l", "k", " ", "o", "r", " ", "r", "e", "s", "t", "a", "r", "t", "s", ".">>

hardIntentSuffixEN ==
  <<" ", "(", "p", "l", "e", "a", "s", "e", " ", "r", "e", "s", "p", "o", "n", "d", " ", "t", "o", " ", "t", "h", "i", "s", " ", "d", "i", "r", "e", "c", "t", "l", "y", ")">>

intentRuleMathTextEN ==
  <<"I", "f", " ", "t", "h", "e", " ", "l", "a", "t", "e", "s", "t", " ", "i", "n", "t", "e", "n", "t", " ", "c", "o", "n", "t", "a", "i", "n", "s", " ", "a", " ", "f", "o", "r", "m", "u", "l", "a", " ", "o", "r", " ", "r", "e", "q", "u", "e", "s", "t", "s", " ", "n", "u", "m", "b", "e", "r", "s", " ", "o", "n", "l", "y", ",", " ", "o", "u", "t", "p", "u", "t", " ", "o", "n", "l", "y", " ", "t", "h", "e", " ", "n", "u", "m", "e", "r", "i", "c", " ", "r", "e", "s", "u", "l", "t", ".">>

intentRuleStoryTextEN ==
  <<"I", "f", " ", "t", "h", "e", " ", "l", "a", "t", "e", "s", "t", " ", "i", "n", "t", "e", "n", "t", " ", "s", "a", "y", "s", " ", "t", "o", " ", "a", "d", "v", "a", "n", "c", "e", "/", "c", "o", "n", "t", "i", "n", "u", "e", "/", "a", "c", "t", ",", " ", "i", "m", "m", "e", "d", "i", "a", "t", "e", "l", "y", " ", "t", "a", "k", "e", " ", "t", "h", "e", " ", "n", "e", "x", "t", " ", "c", "o", "n", "c", "r", "e", "t", "e", " ", "a", "c", "t", "i", "o", "n", " ", "w", "i", "t", "h", "i", "n", " ", "t", "h", "e", " ", "e", "x", "i", "s", "t", "i", "n", "g", " ", "w", "o", "r", "l", "d", " ", "w", "i", "t", "h", "o", "u", "t", " ", "s", "m", "a", "l", "l", " ", "t", "a", "l", "k", " ", "o", "r", " ", "r", "e", "s", "t", "a", "r", "t", "s", ".">>

ModelRole == <<"m", "o", "d", "e", "l">>

\* { role, parts: [{ text }] } of the Gemini payload, { role, content } of the OpenAI one
Turn(role, text) == [text |-> text, role |-> role]

\* the non-system messages whose role is user or assistant
turns(messages) ==
  SelectSeq(messages, LAMBDA m : RoleOf(m) \in {UserRole, AssistantRole})

\* Math.max(2, Number(config.chatHistoryTurns||8)*2)
keep ==
  Max(2, (IF config.chatHistoryTurns = 0 THEN 8 ELSE config.chatHistoryTurns) * 2)

\* s.slice(-n)
LastN(s, n) == SubSeq(s, Max(1, Len(s) - n + 1), Len(s))

clipped(messages) == LastN(turns(messages), keep)

\* roleMap[role] || 'user'
roleMap(role) == IF role = AssistantRole THEN ModelRole ELSE UserRole

HasText(x) == Trim(x.text) # Empty

\* clipped.map(...).filter(text.trim().length > 0)
Converted(c) ==
  SelectSeq([i \in 1..Len(c) |-> Turn(roleMap(RoleOf(c[i])), toText(c[i]))], HasText)

\* messages.map(toText).map(trim).filter(Boolean)
allTexts(messages) ==
  SelectSeq([i \in 1..Len(messages) |-> Trim(toText(messages[i]))], Truthy)

\* the first non-empty text as a single user turn
FallbackFirst(texts) ==
  IF Len(texts) = 0 THEN << >> ELSE <<Turn(UserRole, texts[1])>>

\* the fallback: the last non-empty text as a single user turn
FallbackTurn(texts) ==
  IF Len(texts) = 0 THEN << >> ELSE <<Turn(UserRole, texts[Len(texts)])>>

WithFallback(c, messages) == IF Len(c) = 0 THEN FallbackTurn(allTexts(messages)) ELSE c

\* the position of the last user turn of a list of turns, 0 when it has none
LastUserTurn(c) == Greatest({i \in 1..Len(c) : c[i].role = UserRole})

TextAt(c, k) == IF k = 0 THEN Empty ELSE c[k].text

\* the latest user text is pushed when the last user turn does not carry it
Injected(c, k, lut) ==
  IF Truthy(lut) /\ (k = 0 \/ Trim(TextAt(c, k)) # Trim(lut))
    THEN Append(c, Turn(UserRole, lut)) ELSE c

WithLastUser(c, lut) == Injected(c, LastUserTurn(c), lut)

\* the anchor is pushed as a user turn when there is still no user turn
WithAnchor(c, anchor) ==
  IF LastUserTurn(c) = 0 /\ Truthy(anchor) THEN Append(c, Turn(UserRole, anchor)) ELSE c

\* String(text).slice(0, Math.max(40, Number(config.intentAnchorClamp||400)))
brief(text) ==
  Slice0(text, Max(40, IF config.intentAnchorClamp = 0 THEN 400
                                                      ELSE config.intentAnchorClamp))

\* the latest user text as it came
CollapsedUntrimmed(lut, anchor) == <<Turn(UserRole, Or(lut, anchor))>>

\* strict mode: only the latest user text, trimmed
Collapsed(lut, anchor) == <<Turn(UserRole, Trim(Or(lut, anchor)))>>

\* the synthetic user turn at the end
HardAppend(c, lut, anchor) ==
  IF ~config.strictLatestOnly /\ config.hardIntentAppend /\ Truthy(anchor)
       /\ ~MathIntent(lut, anchor)
    THEN Append(c, Turn(UserRole, brief(anchor) \o hardIntentSuffixEN)) ELSE c

Contents(messages, lut, anchor) ==
  HardAppend(IF config.strictLatestOnly
               THEN Collapsed(lut, anchor)
               ELSE WithAnchor(WithLastUser(WithFallback(Converted(clipped(messages)),
                                                         messages), lut), anchor),
             lut, anchor)

ContentsFrom(r, lut) == Contents(r.messages, lut, Anchor(r, lut))

\* payload.contents as fetchWithRetries sends it
contents(r) == ContentsFrom(r, lastUserText(r))

\* the intent rules fired by a text
RuleTexts(text) ==
  IF config.strictLatestOnly \/ ~Truthy(text) THEN << >>
  ELSE (IF config.intentRuleMath /\ isMathIntentText(text)
          THEN <<intentRuleMathTextEN>> ELSE << >>)
       \o (IF config.intentRuleStory /\ isStoryIntentText(text)
             THEN <<intentRuleStoryTextEN>> ELSE << >>)

\* t.replace('{lastUser}', brief), for a text without "$"
IntentAnchorText(text) == intentAnchorHeadEN \o brief(text) \o intentAnchorTailEN

Persona(text) ==
  IF Truthy(text) /\ ~config.strictLatestDropPersona THEN <<text>> ELSE << >>

UserPriority == IF config.forceUserPriority THEN <<userPriorityTextEN>> ELSE << >>

\* the intent anchor of the system instruction, skipped on the Gemini branch when the
\* intent is math
AnchorDirective(text, math) ==
  IF ~config.strictLatestOnly /\ config.intentAnchor /\ Truthy(text) /\ ~math
    THEN <<IntentAnchorText(text)>> ELSE << >>

sysList(r, lut, anchor) ==
  Persona(systemText(r)) \o RuleTexts(lut) \o RuleTexts(anchor)
    \o AnchorDirective(anchor, MathIntent(lut, anchor)) \o UserPriority
    \o AnchorDirective(lut, MathIntent(lut, anchor))

SysListFrom(r, lut) == sysList(r, lut, Anchor(r, lut))

\* sysList.filter(Boolean).join('\n'), the text of payload.systemInstruction
sysCombined(r) == Join(SysListFrom(r, lastUserText(r)), <<"\n">>)

\* the body of the call to Gemini; no systemInstruction when the text is empty
payload(r) == [contents |-> contents(r), systemInstruction |-> sysCombined(r)]

(***************************************************************************)
(* The payload of the OpenAI-compatible branch.                            *)
(***************************************************************************)
oc_scrubMeta(t) == IF ~config.scrubStMetaPrompts THEN t ELSE scrubMeta(t)

\* messages.filter(role === 'system').map(toText).filter(Boolean).join('\n')
RECURSIVE sysTextOf(_)
sysTextOf(messages) ==
  IF Len(messages) = 0 THEN << >>
  ELSE (IF RoleOf(messages[1]) = SystemRole /\ Truthy(oc_toText(messages[1]))
          THEN <<oc_toText(messages[1])>> ELSE << >>) \o sysTextOf(Tail(messages))

sysText(r) == Join(sysTextOf(r.messages), <<"\n">>)

nonSystemClipped(messages) == LastN(turns(messages), keep)

\* nonSystemClipped.map(m => ({ role: m.role, content: oc_scrubMeta(oc_toText(m)) }))
\*   .filter(content.trim().length > 0)
NonSystem(c) ==
  SelectSeq([i \in 1..Len(c) |-> Turn(c[i].role, oc_scrubMeta(oc_toText(c[i])))], HasText)

nonSystem(messages) == NonSystem(nonSystemClipped(messages))

\* the intent anchor, whatever the intent
oc_sysList(r, lut, anchor) ==
  Persona(sysText(r)) \o UserPriority \o RuleTexts(lut) \o RuleTexts(anchor)
    \o AnchorDirective(lut, FALSE)

SystemEntry(text) == IF Truthy(text) THEN <<Turn(SystemRole, text)>> ELSE << >>

\* m.role === 'user', of an outgoing entry
LastUserEntry(out) == Greatest({i \in 1..Len(out) : out[i].role = UserRole})

\* the latest user text is appended whatever the last user entry carries
Injected2Always(out, k, lut) == IF Truthy(lut) THEN Append(out, Turn(UserRole, lut)) ELSE out

\* the latest user text is appended when the last user entry does not carry it
Injected2(out, k, lut) ==
  IF Truthy(lut) /\ (~Truthy(TextAt(out, k)) \/ Trim(TextAt(out, k)) # Trim(lut))
    THEN Append(out, Turn(UserRole, lut)) ELSE out

WithLastUser2(out, lut) == Injected2(out, LastUserEntry(out), lut)

OutMessages(messages, sys, lut, anchor) ==
  HardAppend(WithLastUser2(SystemEntry(sys)
                             \o (IF config.strictLatestOnly
                                   THEN Collapsed(lut, anchor)
                                   ELSE nonSystem(messages)), lut),
             lut, anchor)

OutMessagesFrom(r, lut, anchor) ==
  OutMessages(r.messages, Join(oc_sysList(r, lut, anchor), <<"\n">>), lut, anchor)

OutMessagesOf(r, lut) == OutMessagesFrom(r, lut, Anchor2(r, lut))

\* payload.messages as the call to the provider sends it
outMessages(r) == OutMessagesOf(r, lastUserText2(r))

(***************************************************************************)
(* The specification of the payload claims: processes started with and     *)
(* without strict-latest mode, hard append, the persona and the            *)
(* user-priority directive, with a history window of 1 and of 8 turns,     *)
(* and holding a key for each provider.                                    *)
(***************************************************************************)
Go == <<"g", "o">>

\* the x-st-last-input header " ", percent-encoded
BlankHeader == <<"%", "2", "0">>

PayloadConfigs ==
  {[Cfg(TRUE, strict, 0) EXCEPT !.hardIntentAppend = hard, !.strictLatestDropPersona = drop,
                                !.forceUserPriority = prio, !.chatHistoryTurns = window] :
     strict \in BOOLEAN, hard \in BOOLEAN, drop \in BOOLEAN, prio \in BOOLEAN,
     window \in {1, 8}}

PayloadMessageLists == {
  << >>,
  <<Msg(UserRole, StrContent(Blank))>>,
  <<Msg(SystemRole, StrContent(BeBrief))>>,
  <<Msg(SystemRole, StrContent(BeBrief)), Msg(SystemRole, StrContent(Yo))>>,
  <<Msg(SystemRole, StrContent(Empty))>>,
  <<Msg(SystemRole, StrContent(TwoTimesThree))>>,
  <<Msg(SystemRole, StrContent(BeBrief)), Msg(UserRole, StrContent(Hi)),
    Msg(AssistantRole, StrContent(Yo)), Msg(UserRole, StrContent(Go))>>,
  <<Msg(UserRole, StrContent(Hi)), Msg(AssistantRole, StrContent(Yo)),
    Msg(UserRole, StrContent(Go)), Msg(AssistantRole, StrContent(Hi))>>,
  <<Msg(UserRole, StrContent(Hi)), Msg(AssistantRole, StrContent(Yo)),
    Msg(UserRole, StrContent(Blank))>> }

PayloadRequests ==
  {Request(m, src, Gpt4, FALSE, "u1", hdr, UpUrl, Empty) :
     m \in PayloadMessageLists, src \in {Makersuite, Custom}, hdr \in {Empty, BlankHeader}}

PayloadOutcomes == {Resp(200, HiReply), Resp(500, TextBody(Down))}

InitPayload ==
  /\ config \in PayloadConfigs
  /\ secrets = Store("ku", "")
  /\ env = Env("", Empty)
  /\ Start

NextPayload ==
  \/ \E r \in PayloadRequests : Generate(r)
  \/ \E o \in PayloadOutcomes : GeminiAttempt(o)
  \/ GeminiReply
  \/ \E o \in PayloadOutcomes : OpenAIFetch(o)

SpecPayload == InitPayload /\ [][NextPayload]_vars

(***************************************************************************)
(* C12.                                                                    *)
(***************************************************************************)
\* the outgoing message list of the request on its branch: the system instruction,
\* when there is one, and the turns
OutgoingList(r) ==
  IF isGemini(r) THEN SystemEntry(sysCombined(r)) \o contents(r) ELSE outMessages(r)

\* the request has several prior turns and a call upstream has been made for it
SeveralTurnsSent == calls # << >> /\ Len(req.messages) >= 3

SystemTextOf(r) == IF isGemini(r) THEN systemText(r) ELSE sysText(r)

\* what strict-latest mode leaves of the system instruction: the system text of the
\* request and the user-priority directive
StrictSystem(r) == Join(Persona(SystemTextOf(r)) \o UserPriority, <<"\n">>)

\* the latest user text of the request on its branch
LatestUserOf(r) == IF isGemini(r) THEN lastUserText(r) ELSE lastUserText2(r)

\* the latest user text is blank without being empty
BlankLatest(r) == Truthy(LatestUserOf(r)) /\ Trim(LatestUserOf(r)) = Empty

AllSystem(r) ==
  /\ Len(r.messages) > 0
  /\ \A i \in 1..Len(r.messages) :
       ~r.messages[i].isNull /\ RoleOf(r.messages[i]) = SystemRole

\* a call to Gemini has been made for a request of system-role turns without math intent
SystemOnlySent ==
  isGemini(req) /\ AllSystem(req) /\ ~mathIntent(req) /\ calls # << >>

\* the synthesized turn: a user turn holding the last non-empty text of the messages
Synthesized(r) ==
  IF Truthy(getLastNonEmptyText(r.messages))
    THEN <<Turn(UserRole, getLastNonEmptyText(r.messages))>> ELSE << >>

HeaderTurn(r) ==
  IF Truthy(HeaderText(r))
       /\ (Synthesized(r) = << >> \/ Synthesized(r)[1].text # Trim(HeaderText(r)))
    THEN <<Turn(UserRole, HeaderText(r))>> ELSE << >>

\* the hard-append turn: the anchor text and the configured suffix
AppendedTurn(r) ==
  IF config.hardIntentAppend /\ Truthy(anchorBase(r))
    THEN <<Turn(UserRole, anchorBase(r) \o hardIntentSuffixEN)>> ELSE << >>

SentToGemini == \E i \in 1..Len(calls) : calls[i].to = "gemini"

\* C14: every payload sent to Gemini holds at least one turn, every turn of it has
\* a non-empty text and the role user or model, and none is a system-role turn,
\* whatever the messages of the request and in strict-latest mode too.
C14_GeminiPayload ==
  SentToGemini =>
    /\ Len(contents(req)) >= 1
    /\ \A k \in 1..Len(contents(req)) :
         /\ contents(req)[k].text # Empty
         /\ contents(req)[k].role \in {UserRole, ModelRole}

(***************************************************************************)
(* C15.                                                                    *)
(***************************************************************************)
\* the branch the selection rule names for a request
Selected(r) ==
  IF ToLowerCase(r.source) = Makersuite
       \/ ToLowerCase(Slice0(model(r), Len(GeminiPrefix))) = GeminiPrefix
    THEN "gemini"
  ELSE IF ToLowerCase(r.source) \in {OpenAI, Custom, Generic, OpenRouter}
    THEN "openai"
  ELSE "demo"

CompatBranches == {"openai-compat", "openrouter", "openai-compat-fallback", "openrouter-fallback"}

\* the response is the echo of the Gemini branch for a missing key
NoKeyEcho ==
  res.kind = "completion" /\ Slice0(res.content, Len(NoGoogleKeyMarker)) = NoGoogleKeyMarker

\* the branches whose code has left its mark on the handling of the request: where the
\* handler stands, the calls it made, the branch header and the reply it wrote
Marks ==
  (IF \/ pc \in {"gemini_fetch", "gemini_reply"}
      \/ \E i \in 1..Len(calls) : calls[i].to = "gemini"
      \/ res.branch = "gemini"
      \/ NoKeyEcho
     THEN {"gemini"} ELSE {})
  \cup (IF \/ pc \in {"openai_fetch", "passthrough"}
           \/ \E i \in 1..Len(calls) : calls[i].to \in CompatBranches
           \/ res.branch \in CompatBranches
          THEN {"openai"} ELSE {})
  \cup (IF res.branch = "demo" THEN {"demo"} ELSE {})

\* a response has been written: its status line and headers are out
Written == res.kind # "none"

\* the handler has returned without the error of the catch-all
Handled == pc = "done" /\ res.kind # "gateway_error"

\* C15: each request is handled by exactly one branch, the one the selection rule
\* names (Gemini for the source makersuite or a model beginning with "gemini",
\* else OpenAI-compatible for the sources openai, custom, generic and openrouter,
\* else demo), and gets exactly one response: none before the handler writes it,
\* one once the handler is done, and a written response is never replaced by
\* another.
C15_OneBranch ==
  /\ [](pc # "idle" => /\ Marks \subseteq {Selected(req)}
                       /\ (Handled => Marks = {Selected(req)})
                       /\ (pc = "done" => Written /\ res.ended)
                       /\ (pc \notin {"done", "passthrough"} => ~Written))
  /\ [][Written => /\ res'.kind = res.kind
                   /\ res'.status = res.status
                   /\ res'.branch = res.branch]_vars

\* a request with the source custom and a model beginning with "Gemini" has been
\* answered by the Gemini branch after a call to Gemini
C15_Witness ==
  /\ Handled
  /\ source(req) = Custom
  /\ Selected(req) = "gemini"
  /\ calls # << >>
  /\ Marks = {"gemini"}

(***************************************************************************)
(* C16.                                                                    *)
(***************************************************************************)
\* C16: no request fails because of the shape of its messages: whatever the
\* entries of messages are, a handler that has met no upstream failure does not
\* answer with the error of the catch-all.
C16_NeverRaises ==
  pc = "done" /\ attempts = << >> => res.kind # "gateway_error"

(***************************************************************************)
(* C17.                                                                    *)
(***************************************************************************)
\* the secret key and the process-wide default of the credential of a request
CredentialKey(r) == IF isGemini(r) THEN "api_key_makersuite" ELSE keyType(r)

ProcessDefault(r) == IF isGemini(r) THEN env.MAKERSUITE_API_KEY ELSE envKey(r)

\* the user's own secret, then the guest scope's, then the process-wide default
Chain(r) ==
  OrKey(OrKey(SecretValue(uid(r), CredentialKey(r)), SecretValue("guest", CredentialKey(r))),
        ProcessDefault(r))

\* C17: the credential of every upstream call is resolved along one chain: the
\* requesting user's own secret, then the guest scope's secret, then the
\* process-wide default; the default is never used while the guest scope holds a
\* secret for the key.
C17_CredentialChain ==
  \A i \in 1..Len(calls) : calls[i].token = Chain(req)

(***************************************************************************)
(* The specification of the canonical text: a message is flattened by the  *)
(* toText of a branch, and the text it gives is flattened again as the     *)
(* content of a message.                                                   *)
(***************************************************************************)
\* the most fragments a text of the model is made of
MaxFragments == 4

Fragments == {
  <<"x">>, <<"\n">>, <<"[">>,
  <<"[", "S", "t", "a", "r", "t", " ", "a", " ">>,
  <<"[", "E", "x", "a", "m", "p", "l", "e", " ", "C", "h", "a", "t", "]">>,
  <<"n", "e", "w", " ", "C", "h", "a", "t", "]">> }

\* the texts made of n fragments
RECURSIVE TextsOf(_)
TextsOf(n) ==
  IF n = 0 THEN {Empty} ELSE {f \o t : f \in Fragments, t \in TextsOf(n - 1)}

FragmentTexts == UNION {TextsOf(n) : n \in 0..MaxFragments}

\* a text as the content of a message: a string, an array of one part, an object
ContentsOf(t) == {StrContent(t), ArrContent(<<StrPart(t)>>), ObjContent(Empty, t)}

\* the canonical text of a message on the Gemini and on the OpenAI-compatible branch
flatten(branch, m) == IF branch = "gemini" THEN toText(m) ELSE oc_scrubMeta(oc_toText(m))

InitText ==
  /\ config \in {[Cfg(TRUE, FALSE, 0) EXCEPT !.scrubStMetaPrompts = scrub] : scrub \in BOOLEAN}
  /\ secrets = Store("", "")
  /\ env = Env("", Empty)
  /\ Start

\* a message arrives to be flattened on a branch
Arrive(m, branch) ==
  /\ canon.x.isNull
  /\ canon' = [x |-> m, texts |-> << >>, branch |-> branch]
  /\ UNCHANGED <<config, secrets, env, req, pc, loop, r1, res, calls, delays, last,
                 attempts, lastDiag, parked, store, aside>>

\* the message is flattened, and then the text it gave
Flatten ==
  /\ ~canon.x.isNull
  /\ Len(canon.texts) < 2
  /\ canon' = [canon EXCEPT !.texts =
                 IF Len(canon.texts) = 0
                   THEN <<flatten(canon.branch, canon.x)>>
                   ELSE Append(canon.texts,
                               flatten(canon.branch,
                                       Msg(UserRole, StrContent(canon.texts[1]))))]
  /\ UNCHANGED <<config, secrets, env, req, pc, loop, r1, res, calls, delays, last,
                 attempts, lastDiag, parked, store, aside>>

NextText ==
  \/ \E t \in FragmentTexts, branch \in {"gemini", "openai"} :
       \E c \in ContentsOf(t) : Arrive(Msg(UserRole, c), branch)
  \/ Flatten

SpecText == InitText /\ [][NextText]_vars

(***************************************************************************)
(* C18.                                                                    *)
(***************************************************************************)
\* C18: the derivation of the canonical text is idempotent: flattening the text
\* that flattening gave leaves it as it is, also where the removal of one
\* placeholder makes another appear.
C18_Idempotent ==
  Len(canon.texts) = 2 => canon.texts[2] = canon.texts[1]

(***************************************************************************)
(* Accounts, entitlements and session tokens.                              *)
(***************************************************************************)
\* the length of the trial and of what a card buys, in days
TrialDays == 7

CardDays == 30

\* the last day of the model, and the last day an entitlement may run to
MaxClock == 15

MaxExpiry == 45

\* an ISO date string, or null
NoDate == [isNull |-> TRUE, ms |-> 0]

Date(t) == [isNull |-> FALSE, ms |-> t]

\* what getEntitlements() answers for an account without an entry
FreeEnt == [plan |-> "free", expiresAt |-> NoDate]

\* the ids upsertUser() gives: `u_${db.users.length+1}`
UserIds == <<"u_1", "u_2">>

Emails == {"ann@x", "Ann@x", "bob@x"}

Passwords == {"pw1", "pw2"}

\* card codes: none, blank, and a code
Cards == {Empty, <<" ">>, <<"C", "1">>}

toLowerCase(email) == IF email = "Ann@x" THEN "ann@x" ELSE email

\* crypto.createHash('sha256').update(password).digest('hex')
sha256(password) == <<"sha256", password>>

\* the index of the user with the email, 0 when there is none
Find(users, email) ==
  LET hits == {i \in 1..Len(users) : toLowerCase(users[i].email) = toLowerCase(email)}
  IN  IF hits = {} THEN 0 ELSE CHOOSE i \in hits : \A j \in hits : i <= j

\* the database after upsertUser(email, passwordHash)
upsertUser(d, email, passwordHash) ==
  LET i == Find(d.users, email)
  IN  IF i = 0
        THEN [d EXCEPT !.users = Append(@, [email |-> email, passwordHash |-> passwordHash,
                                            id |-> UserIds[Len(@) + 1]])]
        ELSE [d EXCEPT !.users[i].passwordHash = passwordHash]

getUserByEmail(d, email) == d.users[Find(d.users, email)]

getEntitlements(d, userId) ==
  IF \E e \in d.entitlements : e.uid = userId
    THEN (CHOOSE e \in d.entitlements : e.uid = userId).ent
    ELSE FreeEnt

setEntitlements(d, userId, ent) ==
  [d EXCEPT !.entitlements =
     {e \in @ : e.uid # userId} \cup {[uid |-> userId, ent |-> ent]}]

\* new Date(ent.expiresAt).getTime() > Date.now()
Unexpired(ent, now) == ~ent.expiresAt.isNull /\ ent.expiresAt.ms > now

\* the day the entitlement of the account runs to after a card is redeemed
nextExpiry(d, now, userId) ==
  LET prev == getEntitlements(d, userId)
      currentExpiry == IF prev.expiresAt.isNull THEN now ELSE prev.expiresAt.ms
  IN  (IF now >= currentExpiry THEN now ELSE currentExpiry) + CardDays

\* the database after redeemCardForUser(userId, code) with a code that is not blank
redeemCardForUser(d, now, userId) ==
  setEntitlements(d, userId, [plan |-> "pro", expiresAt |-> Date(nextExpiry(d, now, userId))])

\* the response of a call: status, the token set as cookie ("" when none), the name
\* asked for and the body where a claim reads them; and as history whether the entitlement of the account was
\* unexpired when the call came in, whether the entitlement in the response is
\* unexpired, and whether a card was redeemed in the call
Served(op, status, userId, cookie, ent, body, hadRights, redeemed) ==
  [op |-> op, status |-> status, body |-> body, uid |-> userId, token |-> cookie,
   asked |-> Empty, hadRights |-> hadRights, entitled |-> Unexpired(ent, clock), redeemed |-> redeemed]

\* toJsonError(): no token, no entitlements
Refused(op, status, userId, hadRights) ==
  Served(op, status, userId, "", FreeEnt, {}, hadRights, FALSE)

generate == <<config, secrets, env, req, pc, loop, r1, res, calls, delays, last, attempts,
              lastDiag, parked, canon>>

\* POST /api/auth/register. The process was started without DEFAULT_API_KEY, so
\* seedDefaultSecretFor() writes nothing.
Register(email, password, card) ==
  /\ IF email = "" \/ password = ""
       THEN /\ served' = Refused("register", 400, "", FALSE)
            /\ UNCHANGED <<db, cookies>>
       ELSE \E d1 \in {upsertUser(db, email, sha256(password))} :
            \E user \in {getUserByEmail(d1, email)} :
            \E ent \in {getEntitlements(d1, user.id)} :
            \E d2 \in {IF Trim(card) # Empty
                         THEN redeemCardForUser(d1, clock, user.id)
                         ELSE IF ent.expiresAt.isNull \/ ent.expiresAt.ms < clock
                           THEN setEntitlements(d1, user.id,
                                  [plan |-> "trial", expiresAt |-> Date(clock + TrialDays)])
                           ELSE d1} :
              /\ Trim(card) # Empty => nextExpiry(d1, clock, user.id) <= MaxExpiry
              /\ db' = d2
              /\ cookies' = cookies \cup {user.id}
              /\ served' = Served("register", 200, user.id, user.id,
                                 getEntitlements(d2, user.id), {},
                                 Unexpired(ent, clock), Trim(card) # Empty)
  /\ UNCHANGED <<generate, aside, clock>>

\* POST /api/auth/login
Login(email, password, card) ==
  /\ IF email = "" \/ password = ""
       THEN served' = Refused("login", 400, "", FALSE) /\ UNCHANGED <<db, cookies>>
       ELSE IF Find(db.users, email) = 0
         THEN served' = Refused("login", 401, "", FALSE) /\ UNCHANGED <<db, cookies>>
         ELSE \E u \in {getUserByEmail(db, email)} :
              \E ent \in {getEntitlements(db, u.id)} :
              \E valid \in {Unexpired(ent, clock)} :
                IF u.passwordHash # sha256(password)
                  THEN served' = Refused("login", 401, u.id, valid) /\ UNCHANGED <<db, cookies>>
                  ELSE IF Trim(card) # Empty
                    THEN /\ nextExpiry(db, clock, u.id) <= MaxExpiry
                         /\ db' = redeemCardForUser(db, clock, u.id)
                         /\ cookies' = cookies \cup {u.id}
                         /\ served' = Served("login", 200, u.id, u.id,
                                            getEntitlements(db', u.id), {}, valid, TRUE)
                    ELSE IF ~valid /\ config.enforceRightsOnLogin
                      THEN served' = Refused("login", 402, u.id, valid)
                           /\ UNCHANGED <<db, cookies>>
                      ELSE /\ cookies' = cookies \cup {u.id}
                           /\ served' = Served("login", 200, u.id, u.id, ent, {},
                                              valid, FALSE)
                           /\ UNCHANGED db
  /\ UNCHANGED <<generate, aside, clock>>

\* POST /api/cards/redeem with the cookie of the account userId, "" without a cookie
RedeemCard(userId, code) ==
  /\ IF userId = ""
       THEN served' = Refused("redeem", 401, "", FALSE) /\ UNCHANGED db
       ELSE IF Trim(code) = Empty
         THEN served' = Refused("redeem", 400, userId, Unexpired(getEntitlements(db, userId), clock))
              /\ UNCHANGED db
         ELSE /\ nextExpiry(db, clock, userId) <= MaxExpiry
              /\ db' = redeemCardForUser(db, clock, userId)
              /\ served' = Served("redeem", 200, userId, "", getEntitlements(db', userId), {},
                                 Unexpired(getEntitlements(db, userId), clock), TRUE)
  /\ UNCHANGED <<generate, aside, clock, cookies>>

\* POST /api/_diagnostics/revoke-rights with the cookie of the account userId
RevokeRights(userId) ==
  /\ IF userId = ""
       THEN served' = Refused("revoke", 401, "", FALSE) /\ UNCHANGED db
       ELSE /\ db' = setEntitlements(db, userId, [plan |-> "free", expiresAt |-> Date(0)])
            /\ served' = Served("revoke", 200, userId, "", FreeEnt, {},
                               Unexpired(getEntitlements(db, userId), clock), FALSE)
  /\ UNCHANGED <<generate, aside, clock, cookies>>

\* a week passes
Tick ==
  /\ clock + TrialDays <= MaxClock
  /\ clock' = clock + TrialDays
  /\ UNCHANGED <<generate, aside, db, cookies, served>>

InitAuth ==
  /\ config \in {[Cfg(TRUE, FALSE, 0) EXCEPT !.enforceRightsOnLogin = enforce] :
                   enforce \in BOOLEAN}
  /\ secrets = Store("", "")
  /\ env = Env("", Empty)
  /\ Start

NextAuth ==
  \/ \E email \in Emails \cup {""}, password \in Passwords \cup {""}, card \in Cards :
       Register(email, password, card)
  \/ \E email \in Emails \cup {""}, password \in Passwords \cup {""}, card \in Cards :
       Login(email, password, card)
  \/ \E userId \in cookies \cup {""}, code \in Cards : RedeemCard(userId, code)
  \/ \E userId \in cookies \cup {""} : RevokeRights(userId)
  \/ Tick

SpecAuth == InitAuth /\ [][NextAuth]_vars

(***************************************************************************)
(* C19.                                                                    *)
(***************************************************************************)
\* a session token was issued by the last call
Issued == served.op \in {"register", "login"} /\ served.token # ""

\* C19: with rights enforcement on login, a session token is issued to an account
\* only if its entitlement is unexpired at that moment or a card is redeemed in the
\* same call: registration without a card is refused, and an account whose
\* entitlement is missing or expired gets no token by logging in or by registering
\* again.
C19_TokenNeedsRights ==
  config.enforceRightsOnLogin =>
    /\ Issued => served.entitled \/ served.redeemed
    /\ served.op = "register" /\ ~served.redeemed => served.token = ""
    /\ served.op \in {"register", "login"} /\ ~served.hadRights /\ ~served.redeemed
         => served.token = ""

(***************************************************************************)
(* Presets: save and restore.                                              *)
(***************************************************************************)
\* JSON values; an object is the set of its fields
Undefined == [kind |-> "undefined", num |-> 0, str |-> Empty, fields |-> {}]

JNum(n) == [kind |-> "number", num |-> n, str |-> Empty, fields |-> {}]

JStr(t) == [kind |-> "string", num |-> 0, str |-> t, fields |-> {}]

JBool(b) == [kind |-> "boolean", num |-> IF b THEN 1 ELSE 0, str |-> Empty, fields |-> {}]

JObj(fields) == [kind |-> "object", num |-> 0, str |-> Empty, fields |-> fields]

Field(key, val) == [val |-> val, key |-> key]

hasOwnProperty(obj, key) == \E f \in obj : f.key = key

\* obj[key]
Get(obj, key) ==
  IF hasOwnProperty(obj, key) THEN (CHOOSE f \in obj : f.key = key).val ELSE Undefined

\* { ...obj, [key]: val }
Put(obj, key, val) == {f \in obj : f.key # key} \cup {Field(key, val)}

\* value.key of a value that may be no object; String(x || '') of what it gives
Member(value, key) == IF value.kind = "object" THEN Get(value.fields, key) ELSE Undefined

StringOr(value) == IF value.kind = "string" THEN value.str ELSE Empty

Kobold == <<"k", "o", "b", "o", "l", "d">>

KoboldHorde == <<"k", "o", "b", "o", "l", "d", "h", "o", "r", "d", "e">>

TextGen == <<"t", "e", "x", "t", "g", "e", "n">>

TextGenerationWebUI ==
  <<"t", "e", "x", "t", "g", "e", "n", "e", "r", "a", "t", "i", "o", "n", "w", "e", "b", "u", "i">>

normalizePresetCategory(raw) ==
  LET value == ToLowerCase(Or(raw, OpenAI))
  IN  IF value = KoboldHorde THEN Kobold
      ELSE IF value = TextGen THEN TextGenerationWebUI
      ELSE value

\* the default presets the installation ships: SillyTavern's openai/Default.json
DefaultName == <<"D", "e", "f", "a", "u", "l", "t">>

completionCache ==
  {[category |-> OpenAI, name |-> DefaultName, preset |-> {Field("temperature", JNum(1))}]}

advancedCache == {}

namedCollectionCache == {}

\* the entries of a default collection with the name, letter case and blanks apart
DefaultsNamed(items, category, name) ==
  {item \in items : /\ item.category = category
                    /\ Trim(name) # Empty
                    /\ ToLowerCase(Trim(item.name)) = ToLowerCase(Trim(name))}

\* the default lookups of restore, in their order: the defaults found, none when empty
getDefault(category, name) ==
  {item.preset : item \in
     IF DefaultsNamed(advancedCache, category, name) # {}
       THEN DefaultsNamed(advancedCache, category, name)
       ELSE IF DefaultsNamed(completionCache, category, name) # {}
         THEN DefaultsNamed(completionCache, category, name)
         ELSE DefaultsNamed(namedCollectionCache, category, name)}

ensurePresetPayload(data, fallbackName) ==
  IF hasOwnProperty(data, "name") THEN data ELSE Put(data, "name", JStr(fallbackName))

\* the database after savePreset(userId, category, name, data); the key of an entry
\* is `${category}:::${name}`
savePreset(d, userId, category, name, data) ==
  IF name = Empty THEN d
  ELSE [d EXCEPT !.presets =
          {e \in @ : ~(e.uid = userId /\ e.category = category /\ e.name = name)}
            \cup {[uid |-> userId, category |-> category, name |-> name,
                   data |-> ensurePresetPayload(data, name)]}]

\* getPreset(userId, category, name): the presets found, none when empty
getPreset(d, userId, category, name) ==
  IF name = Empty THEN {}
  ELSE {ensurePresetPayload(e.data, name) :
          e \in {e \in d.presets : e.uid = userId /\ e.category = category /\ e.name = name}}

\* the variants of a category are the category itself: each alias normalizes to it
findUserPresetByName(d, userId, category, name) ==
  getPreset(d, userId, normalizePresetCategory(category), name)

\* history: the user sent the preset under the name
Sent(d, userId, name, preset) ==
  [d EXCEPT !.saved = {s \in @ : s.uid # userId}
                        \cup {[uid |-> userId, name |-> name, preset |-> preset]}]

\* the presets a user may keep in the model
MaxPresets == 1

\* POST /api/presets/save with the cookie of the account userId and the body
\* {name, preset, apiId}; no entry is kept under a key without category, so
\* deletePresetAcrossCategories(includePrimary: false) finds nothing to delete
SavePreset(userId, name, preset, apiId) ==
  /\ IF userId = ""
       THEN served' = Refused("save", 401, "", FALSE) /\ UNCHANGED db
       ELSE \E category \in {normalizePresetCategory(
                               Or(apiId, StringOr(Member(preset, "apiId"))))} :
            \E resolvedName \in {Trim(Or(name, StringOr(Member(preset, "name"))))} :
              IF resolvedName = Empty
                THEN served' = Refused("save", 400, userId, FALSE) /\ UNCHANGED db
                ELSE \E copy \in {IF preset.kind = "object" THEN preset.fields ELSE {}} :
                     \E named \in {IF hasOwnProperty(copy, "name") THEN copy
                                  ELSE Put(copy, "name", JStr(resolvedName))} :
                     \E d1 \in {savePreset(db, userId, category, resolvedName, named)} :
                       /\ Cardinality({e \in d1.presets : e.uid = userId}) <= MaxPresets
                       /\ db' = Sent(d1, userId, resolvedName, copy)
                       /\ served' = [Served("save", 200, userId, "", FreeEnt,
                                            {Field("name", JStr(resolvedName))}, FALSE, FALSE)
                                       EXCEPT !.asked = resolvedName]
  /\ UNCHANGED <<generate, aside, clock, cookies>>

\* POST /api/presets/restore with the cookie of the account userId ("" without one)
\* and the body {name, apiId}
RestorePreset(userId, rawName, apiId) ==
  /\ \E category \in {normalizePresetCategory(Or(apiId, OpenAI))} :
     \E name \in {Trim(rawName)} :
     \E defaults \in {getDefault(category, name)} :
     \E current \in {IF userId = "" THEN {}
                     ELSE findUserPresetByName(db, userId, category, name)} :
     \E preset \in {IF defaults # {} THEN CHOOSE p \in defaults : TRUE
                    ELSE IF current # {} THEN CHOOSE p \in current : TRUE
                    ELSE {}} :
       served' = [Served("restore", 200, userId, "", FreeEnt,
                         {Field("isDefault", JBool(defaults # {})),
                          Field("preset", JObj(preset))}, FALSE, FALSE)
                    EXCEPT !.asked = name]
  /\ UNCHANGED <<generate, aside, clock, cookies, db>>

\* the bodies of the model: names, presets, API ids
PresetNames == {Empty, <<" ", "P">>, DefaultName}

PresetInputs ==
  {Undefined, JObj({Field("a", JNum(1))}),
   JObj({Field("a", JNum(2)), Field("name", JStr(<<"Q">>)), Field("apiId", JStr(Kobold))})}

ApiIds == {Empty, <<"K", "o", "b", "o", "l", "d", "H", "o", "r", "d", "e">>}

CardCode == <<"C", "1">>

InitPresets ==
  /\ config = Cfg(TRUE, FALSE, 0)
  /\ secrets = Store("", "")
  /\ env = Env("", Empty)
  /\ Start

NextPresets ==
  \/ \E email \in {"ann@x", "bob@x"} : Register(email, "pw1", CardCode)
  \/ \E userId \in cookies \cup {""}, name \in PresetNames, preset \in PresetInputs,
        apiId \in ApiIds : SavePreset(userId, name, preset, apiId)
  \/ \E userId \in cookies \cup {""}, name \in PresetNames, apiId \in ApiIds :
       RestorePreset(userId, name, apiId)

SpecPresets == InitPresets /\ [][NextPresets]_vars

(***************************************************************************)
(* C20.                                                                    *)
(***************************************************************************)
\* the name matches a built-in default of some category
BuiltIn(name) ==
  \E item \in advancedCache \cup completionCache \cup namedCollectionCache :
    ToLowerCase(Trim(item.name)) = ToLowerCase(name)

\* the preset the user of the last call sent last, if under the name the call asked for
SavedAsAsked == {s \in db.saved : s.uid = served.uid /\ s.name = served.asked}

\* C20: after a user saved a preset under a name that matches no built-in default, a
\* restore request for that name by the same user answers the saved preset as the
\* response body: each field saved is read back with its value at the top level of
\* the response.
C20_RoundTrip ==
  served.op = "restore" /\ served.uid # "" /\ ~BuiltIn(served.asked) =>
    \A s \in SavedAsAsked : \A f \in s.preset : Get(served.body, f.key) = f.val

(***************************************************************************)
(* The two storage adapters behind db/index.js, called as the server calls *)
(* them: savePreset(user, category, name, payload), getPreset(user,        *)
(* category, name), listPresets(user, category), deletePreset(user,        *)
(* category, name).                                                        *)
(***************************************************************************)
\* what a call returned: undefined, null, a value, an array (compared without its
\* order: the rows of a select come in no stated order), or a rejection
Void == [val |-> Undefined, kind |-> "void", items |-> {}]

NullResult == [val |-> Undefined, kind |-> "null", items |-> {}]

Value(v) == [val |-> v, kind |-> "value", items |-> {}]

List(items) == [val |-> Undefined, kind |-> "list", items |-> items]

Rejected == [val |-> Undefined, kind |-> "error", items |-> {}]

\* file.js listPresets(userId, category)
listPresets(d, userId, category) ==
  {ensurePresetPayload(e.data, e.name) :
     e \in {e \in d.presets : /\ e.uid = userId
                              /\ (category # Empty => e.category = category)
                              /\ e.name # Empty}}

\* the database after file.js deletePreset(userId, category, name)
deletePreset(d, userId, category, name) ==
  IF name = Empty THEN d
  ELSE [d EXCEPT !.presets =
          {e \in @ : ~(e.uid = userId /\ e.category = category /\ e.name = name)}]

\* pg.js fromUid
fromUid(userId) == IF userId = "u_1" THEN 1 ELSE IF userId = "u_2" THEN 2 ELSE 0

\* a text bound to a jsonb parameter is read as JSON: of the names of the model the
\* digits are a number, and the others are no valid JSON
ValidJson(text) == text # Empty /\ \A i \in 1..Len(text) : text[i] \in Digits

JsonOf(text) == JNum(ParseDigits(text, 1, 0).v)

\* pg.js savePreset(userId, name, data), getPreset(userId, name), listPresets(userId),
\* deletePreset(userId, name) on the rows of st_presets
pg_savePreset(rows, userId, name, data) ==
  {r \in rows : ~(r.user_id = fromUid(userId) /\ r.name = name)}
    \cup {[payload |-> data, name |-> name, user_id |-> fromUid(userId)]}

pg_getPreset(rows, userId, name) ==
  {r.payload : r \in {r \in rows : r.user_id = fromUid(userId) /\ r.name = name}}

pg_listPresets(rows, userId) == {JStr(r.name) : r \in {r \in rows : r.user_id = fromUid(userId)}}

pg_deletePreset(rows, userId, name) ==
  {r \in rows : ~(r.user_id = fromUid(userId) /\ r.name = name)}

\* null or the one value found
Found(values) == IF values = {} THEN NullResult ELSE Value(CHOOSE v \in values : TRUE)

\* savePreset(uid, category, name, payload) on both adapters: pg.js takes the category
\* as its name and the name as its data, and has no fourth parameter
SaveBoth(userId, category, name, data) ==
  /\ \E d1 \in {savePreset(db, userId, category, name, data)} :
       /\ Cardinality({e \in d1.presets : e.uid = userId}) <= MaxPresets
       /\ db' = d1
  /\ pg' = IF ValidJson(name) THEN pg_savePreset(pg, userId, category, JsonOf(name)) ELSE pg
  /\ returned' = [op |-> "save", pg |-> IF ValidJson(name) THEN Void ELSE Rejected,
                  file |-> Void]
  /\ UNCHANGED <<generate, clock, cookies, served, vault>>

\* getPreset(uid, category, name) on both adapters
GetBoth(userId, category, name) ==
  /\ returned' = [op |-> "get",
                  pg |-> Found(pg_getPreset(pg, userId, category)),
                  file |-> Found({JObj(p) : p \in getPreset(db, userId, category, name)})]
  /\ UNCHANGED <<generate, store, pg, vault>>

\* listPresets(uid, category) on both adapters
ListBoth(userId, category) ==
  /\ returned' = [op |-> "list",
                  pg |-> List(pg_listPresets(pg, userId)),
                  file |-> List({JObj(p) : p \in listPresets(db, userId, category)})]
  /\ UNCHANGED <<generate, store, pg, vault>>

\* deletePreset(uid, category, name) on both adapters
DeleteBoth(userId, category, name) ==
  /\ db' = deletePreset(db, userId, category, name)
  /\ pg' = pg_deletePreset(pg, userId, category)
  /\ returned' = [op |-> "delete", pg |-> Void, file |-> Void]
  /\ UNCHANGED <<generate, clock, cookies, served, vault>>

\* the calls of the model
StoreUsers == {"u_1", "u_2"}

StoreCategories == {OpenAI, Kobold}

StoreNames == {<<"P">>, <<"7">>}

StorePayloads ==
  {{Field("a", JNum(1))}, {Field("a", JNum(2)), Field("name", JStr(<<"Q">>))}}

InitStores ==
  /\ config = Cfg(TRUE, FALSE, 0)
  /\ secrets = Store("", "")
  /\ env = Env("", Empty)
  /\ Start

NextStores ==
  \/ \E userId \in StoreUsers, category \in StoreCategories, name \in StoreNames,
        data \in StorePayloads : SaveBoth(userId, category, name, data)
  \/ \E userId \in StoreUsers, category \in StoreCategories, name \in StoreNames :
       GetBoth(userId, category, name)
  \/ \E userId \in StoreUsers, category \in StoreCategories : ListBoth(userId, category)
  \/ \E userId \in StoreUsers, category \in StoreCategories, name \in StoreNames :
       DeleteBoth(userId, category, name)

SpecStores == InitStores /\ [][NextStores]_vars

(***************************************************************************)
(* C21.                                                                    *)
(***************************************************************************)
\* C21: the file-backed and the PostgreSQL-backed adapter are interchangeable: for
\* any sequence of preset operations, called as the server calls them, both return
\* the same result at every step.
C21_SameResults == returned.op # "" => returned.file = returned.pg

(***************************************************************************)
(* C22.  The processes of the model run with the defaults of config.js and *)
(* take requests without an accept-language header and without char_name   *)
(* and user_name: the language directive, the character-card brief, the    *)
(* world-info brief and the roleplay-enforcer directive are not pushed.     *)
(***************************************************************************)
\* sysList.filter(Boolean) of the request on its branch
FragmentsOf(r) ==
  SelectSeq(IF isGemini(r) THEN SysListFrom(r, lastUserText(r))
                           ELSE oc_sysList(r, lastUserText2(r), anchorBase2(r)),
            Truthy)

\* the position of a fragment in the precedence of the specification: 1 the system
\* text of the request, 6 the user-priority directive, 7 an intent rule, 8 the
\* intent anchor
Precedence(f) ==
  IF f = userPriorityTextEN THEN 6
  ELSE IF f \in {intentRuleMathTextEN, intentRuleStoryTextEN} THEN 7
  ELSE IF MatchAt(f, 1, intentAnchorHeadEN) THEN 8
  ELSE 1

InPrecedence(fragments) ==
  \A i, j \in 1..Len(fragments) : i < j => Precedence(fragments[i]) <= Precedence(fragments[j])

\* C22: the fragments of the system instruction sent upstream appear in the fixed
\* order system text, language directive, character-card brief, world-info brief,
\* roleplay enforcer, user priority, intent rule, intent anchor, on either branch.
C22_FixedOrder == calls # << >> => InPrecedence(FragmentsOf(req))

\* the order holds of every request sent on the OpenAI-compatible branch
C22_OpenAIOrder == calls # << >> /\ ~isGemini(req) => InPrecedence(FragmentsOf(req))

(***************************************************************************)
(* C23.                                                                    *)
(***************************************************************************)
\* math intent fired for the request, on its latest user text or on its anchor
MathFired(r) == IF isGemini(r) THEN mathIntent(r) ELSE mathIntent2(r)

\* the system instruction of the request holds an intent-anchor directive
Anchored(r) ==
  \E i \in 1..Len(FragmentsOf(r)) : MatchAt(FragmentsOf(r)[i], 1, intentAnchorHeadEN)

\* C23: whenever math intent fired for a request sent upstream, its system
\* instruction holds no intent-anchor directive, on either branch.
C23_NoAnchorOnMath == calls # << >> /\ MathFired(req) => ~Anchored(req)

\* the same of the requests sent on the Gemini branch
C23_GeminiNoAnchorOnMath == calls # << >> /\ isGemini(req) /\ mathIntent(req) => ~Anchored(req)

(***************************************************************************)
(* The specification of the claims on the history window, the anchor, the  *)
(* roles and the scrubbing: processes started with and without strict      *)
(* mode, hard append and SCRUB_ST_META_PROMPTS, with CHAT_HISTORY_TURNS 0, *)
(* 1 and 2, taking requests with a blank final user message, a message of  *)
(* another role, meta-bracket placeholders and five turns.                 *)
(***************************************************************************)
StartNewChat == MetaLiterals[1]

ToolRole == <<"t", "o", "o", "l">>

Ok == <<"o", "k">>

Sure == <<"s", "u", "r", "e">>

TurnConfigs ==
  {[Cfg(TRUE, strict, 0) EXCEPT !.hardIntentAppend = hard, !.scrubStMetaPrompts = scrub,
                                !.chatHistoryTurns = window] :
     strict \in BOOLEAN, hard \in BOOLEAN, scrub \in BOOLEAN, window \in {0, 1, 2}}

TurnMessageLists == {
  << >>,
  <<Msg(UserRole, StrContent(Hi)), Msg(AssistantRole, StrContent(Yo)),
    Msg(UserRole, StrContent(Go))>>,
  <<Msg(UserRole, StrContent(Hi)), Msg(AssistantRole, StrContent(Yo)),
    Msg(UserRole, StrContent(Blank))>>,
  <<Msg(AssistantRole, StrContent(Yo))>>,
  <<Msg(ToolRole, StrContent(Sure))>>,
  <<Msg(UserRole, StrContent(Hi)), Msg(ToolRole, StrContent(Sure))>>,
  <<Msg(UserRole, StrContent(StartNewChat))>>,
  <<Msg(UserRole, StrContent(Hi)), Msg(AssistantRole, StrContent(Yo)),
    Msg(UserRole, StrContent(StartNewChat \o <<"\n">> \o Go))>>,
  <<Msg(UserRole, StrContent(Hi)), Msg(AssistantRole, StrContent(Yo)),
    Msg(UserRole, StrContent(Go)), Msg(AssistantRole, StrContent(Sure)),
    Msg(UserRole, StrContent(Ok))>> }

TurnRequests ==
  {Request(m, src, Gpt4, FALSE, "u1", hdr, UpUrl, Empty) :
     m \in TurnMessageLists, src \in {Makersuite, Custom}, hdr \in {Empty, Ok}}

InitTurns ==
  /\ config \in TurnConfigs
  /\ secrets = Store("ku", "")
  /\ env = Env("", Empty)
  /\ Start

NextTurns ==
  \/ \E r \in TurnRequests : Generate(r)
  \/ \E o \in PayloadOutcomes : GeminiAttempt(o)
  \/ GeminiReply
  \/ \E o \in PayloadOutcomes : OpenAIFetch(o)

SpecTurns == InitTurns /\ [][NextTurns]_vars

(***************************************************************************)
(* C24.                                                                    *)
(***************************************************************************)
\* the turns assembled from the history window of the request, before the latest
\* user text is looked for
AssembledTurns(r) ==
  IF isGemini(r) THEN WithFallback(Converted(clipped(r.messages)), r.messages)
  ELSE nonSystem(r.messages)

\* the hard-append turn of the request: the anchor text and the configured suffix
HardTurn(r) == Turn(UserRole, brief(AnchorOf(r)) \o hardIntentSuffixEN)

\* the outgoing list without its hard-append turn
BeforeHardAppend(out, r) ==
  IF Len(out) > 0 /\ out[Len(out)] = HardTurn(r) THEN SubSeq(out, 1, Len(out) - 1) ELSE out

UserTurns(c) == SelectSeq(c, LAMBDA x : x.role = UserRole)

\* the most recent user turn of the list carries the text, up to trimming
EndsWithUser(c, text) ==
  /\ Len(UserTurns(c)) > 0
  /\ Trim(UserTurns(c)[Len(UserTurns(c))].text) = Trim(text)

\* a request with a latest user text has been sent upstream outside strict mode
LatestSent ==
  ~config.strictLatestOnly /\ calls # << >> /\ Truthy(LatestUserOf(req))

HistoryWindow(r) ==
  IF isGemini(r) THEN clipped(r.messages) ELSE nonSystemClipped(r.messages)

\* K of the specification: twice the configured turn count, 2 at least
WindowBound == Max(2, 2 * config.chatHistoryTurns)

\* the window is the last messages of role user or assistant, in their order
LastTurnsInOrder(r) ==
  /\ HistoryWindow(r) = LastN(turns(r.messages), Len(HistoryWindow(r)))
  /\ \A i \in 1..Len(HistoryWindow(r)) :
       RoleOf(HistoryWindow(r)[i]) \in {UserRole, AssistantRole}

\* C25: the history window of a request sent upstream holds at most
\* K = max(2, 2 x configured turn count) messages, for every configured turn count,
\* 0 included: the last K messages of role user or assistant, in their order.
C25_WindowBound ==
  calls # << >> =>
    /\ Len(HistoryWindow(req)) = Min(WindowBound, Len(turns(req.messages)))
    /\ LastTurnsInOrder(req)

\* the same of the processes configured with a turn count of 1 or more
C25_PositiveCount ==
  calls # << >> /\ config.chatHistoryTurns > 0 =>
    /\ Len(HistoryWindow(req)) = Min(WindowBound, Len(turns(req.messages)))
    /\ LastTurnsInOrder(req)

(***************************************************************************)
(* C26.                                                                    *)
(***************************************************************************)
\* the text of a message as the branch of the request reads it
TextOn(r, m) == IF isGemini(r) THEN toText(m) ELSE oc_toText(m)

\* the last non-empty text among the messages of the roles, trimmed; empty when
\* there is none
LastUtterance(r, roles) ==
  LastNonEmpty([i \in 1..Len(r.messages) |->
                  IF RoleOf(r.messages[i]) \in roles THEN TextOn(r, r.messages[i]) ELSE Empty])

AnyRole(r) == {RoleOf(r.messages[i]) : i \in 1..Len(r.messages)}

\* the anchor of the specification: the last non-empty user utterance, else the last
\* non-empty utterance of any role, else the hint header
ThreeTier(r) ==
  Or(LastUtterance(r, {UserRole}), Or(LastUtterance(r, AnyRole(r)), HeaderText(r)))

\* C26: the anchor of a request is the last non-empty user utterance among its
\* messages (an earlier one when the final user message is blank); when no user
\* message has text, the last non-empty utterance of any role; the hint header
\* only when no message has text.
C26_ThreeTier == calls # << >> => Trim(AnchorOf(req)) = ThreeTier(req)

(***************************************************************************)
(* C27.                                                                    *)
(***************************************************************************)
\* the text occurs in the other
Within(text, other) == \E i \in 1..Len(other) : MatchAt(other, i, text)

\* the text reaches the upstream of the request: it occurs in a turn or in the
\* system instruction of the outgoing list
ReachesUpstream(text, r) ==
  \E i \in 1..Len(OutgoingList(r)) : Within(text, OutgoingList(r)[i].text)

\* the messages of the request whose role is not system, user or assistant
OtherRoles(r) ==
  {i \in 1..Len(r.messages) :
     RoleOf(r.messages[i]) \notin {SystemRole, UserRole, AssistantRole}}

\* C27: a request with a message of another role than system, user and assistant
\* is not rejected, and the text of that message reaches the upstream in no turn
\* and in no fragment of the system instruction.
C27_OtherRoleDropped ==
  calls # << >> =>
    \A i \in OtherRoles(req) : ~ReachesUpstream(Trim(TextOn(req, req.messages[i])), req)

\* the message of another role is in no turn made of the history window
C27_NotInWindow ==
  calls # << >> =>
    \A i \in OtherRoles(req), k \in 1..Len(HistoryWindow(req)) :
      HistoryWindow(req)[k] # req.messages[i]

(***************************************************************************)
(* C28.                                                                    *)
(***************************************************************************)
\* the outgoing list holds the placeholder "[Start a new Chat]" in a turn
PlaceholderSent(r) == ReachesUpstream(StartNewChat, r)

\* a message of the request holds the placeholder
HasPlaceholder(r) ==
  \E i \in 1..Len(r.messages) : Within(StartNewChat, oc_toText(r.messages[i]))

\* the turn of the outgoing list made of the final message of the request, when the
\* text is forwarded as it came
ForwardedLast(r) ==
  \E i \in 1..Len(OutgoingList(r)) :
    OutgoingList(r)[i].text = oc_toText(r.messages[Len(r.messages)])

\* C28: the scrubbing of meta-bracket placeholders follows the scrub option on both
\* branches: with the option on, no turn of the outgoing list holds a placeholder
\* such as "[Start a new Chat]"; with the option off, the text of a message is
\* forwarded with its placeholders.
C28_ScrubFollowsOption ==
  calls # << >> /\ HasPlaceholder(req) =>
    IF config.scrubStMetaPrompts THEN ~PlaceholderSent(req)
    ELSE ~config.strictLatestOnly => ForwardedLast(req)

\* with the option on, the Gemini branch sends no placeholder
C28_GeminiScrubbed ==
  calls # << >> /\ isGemini(req) /\ config.scrubStMetaPrompts => ~PlaceholderSent(req)

\* with the option off, the OpenAI-compatible branch forwards the text as it came
C28_OpenAIForwarded ==
  calls # << >> /\ ~isGemini(req) /\ HasPlaceholder(req) /\ ~config.scrubStMetaPrompts
    /\ ~config.strictLatestOnly => ForwardedLast(req)

(***************************************************************************)
(* C29.                                                                    *)
(***************************************************************************)
\* the handler has answered a request of the Gemini branch whose upstream call was
\* made and failed for good
GeminiFailed == pc = "done" /\ isGemini(req) /\ calls # << >> /\ ~r1.ok

\* C29: on the Gemini branch, whenever the upstream call was made and failed for
\* good, the response is the 502 error of the provider, and the local math fallback
\* after the failure (x-st-fallback: math) is not taken.
C29_NoMathFallback ==
  GeminiFailed =>
    /\ res.fallback # "math"
    /\ res = UpstreamError("gemini", r1.status, BodyText(r1.body), "gemini")
    /\ res.status = 502

\* a request with math intent whose text the evaluator cannot reduce was sent with
\* the math rule on, failed, and was answered 502
C29_Witness ==
  /\ GeminiFailed
  /\ config.intentRuleMath
  /\ mathIntent(req)
  /\ intentRuleHeader(req) = "math"
  /\ localMath(req) = Null
  /\ res.status = 502

(***************************************************************************)
(* The secrets of the file database: per user and key an array of entries  *)
(* { id, value, label, active }.                                           *)
(***************************************************************************)
\* an entry; fresh is history: the entry is the one most recently written or rotated
Entry(id, value, label, active, fresh) ==
  [id |-> id, value |-> value, label |-> label, active |-> active, fresh |-> fresh]

\* no id given
NoId == 0

\* new Date().toLocaleString(), the label of an entry written without one
NowLabel == "now"

\* db.secrets[userId][key], an empty array when the key is absent
secretsOf(v, userId, key) ==
  IF \E e \in v : e.uid = userId /\ e.key = key
    THEN (CHOOSE e \in v : e.uid = userId /\ e.key = key).arr
    ELSE << >>

\* the file written with the array under the key
Stored(v, userId, key, arr) ==
  {e \in v : ~(e.uid = userId /\ e.key = key)} \cup {[arr |-> arr, uid |-> userId, key |-> key]}

\* delete db.secrets[userId][key]
Removed(v, userId, key) == {e \in v : ~(e.uid = userId /\ e.key = key)}

\* arr.forEach(s => s.active = false)
Deactivated(arr) == [i \in 1..Len(arr) |-> [arr[i] EXCEPT !.active = FALSE, !.fresh = FALSE]]

\* arr.findIndex(s => id ? s.id === id : s.active), 0 for -1
findIndex(arr, id) ==
  Least({i \in 1..Len(arr) : IF id # NoId THEN arr[i].id = id ELSE arr[i].active})

\* arr without the entry at idx
Spliced(arr, idx) == SubSeq(arr, 1, idx - 1) \o SubSeq(arr, idx + 1, Len(arr))

\* the entry at idx, or nothing for -1, as { id, value }
Picked(arr, idx) == IF idx = 0 THEN {} ELSE {[id |-> arr[idx].id, value |-> arr[idx].value]}

\* the vault after writeSecretValue(userId, key, value, label), which made the id
writeSecretValue(v, userId, key, id, value, label) ==
  Stored(v, userId, key,
         Append(Deactivated(secretsOf(v, userId, key)),
                Entry(id, value, IF label = "" THEN NowLabel ELSE label, TRUE, TRUE)))

\* findSecretValue(userId, key, id): the { id, value } found, none for null
findSecretValue(v, userId, key, id) ==
  IF secretsOf(v, userId, key) = << >> THEN {}
  ELSE IF id # NoId THEN Picked(secretsOf(v, userId, key), findIndex(secretsOf(v, userId, key), id))
  ELSE IF findIndex(secretsOf(v, userId, key), NoId) # 0
    THEN Picked(secretsOf(v, userId, key), findIndex(secretsOf(v, userId, key), NoId))
  ELSE Picked(secretsOf(v, userId, key), 1)

\* the array left as the splice left it
LeftAsIs(arr) == arr

\* if (arr.length && !arr.some(s => s.active)) arr[0].active = true
Reactivated(arr) ==
  IF Len(arr) > 0 /\ \A i \in 1..Len(arr) : ~arr[i].active
    THEN [arr EXCEPT ![1].active = TRUE] ELSE arr

\* the array of deleteSecretValue after its splice
AfterDelete(arr, idx) == Reactivated(IF idx = 0 THEN arr ELSE Spliced(arr, idx))

\* the vault after deleteSecretValue(userId, key, id)
deleteSecretValue(v, userId, key, id) ==
  IF AfterDelete(secretsOf(v, userId, key), findIndex(secretsOf(v, userId, key), id)) = << >>
    THEN Removed(v, userId, key)
    ELSE Stored(v, userId, key,
                AfterDelete(secretsOf(v, userId, key), findIndex(secretsOf(v, userId, key), id)))

\* the vault after rotateSecretValue(userId, key, id); nothing is written for an id
\* that is not found
rotateSecretValue(v, userId, key, id) ==
  IF id = NoId \/ \A i \in 1..Len(secretsOf(v, userId, key)) : secretsOf(v, userId, key)[i].id # id
    THEN v
    ELSE Stored(v, userId, key,
                [Deactivated(secretsOf(v, userId, key))
                   EXCEPT ![findIndex(secretsOf(v, userId, key), id)].active = TRUE,
                          ![findIndex(secretsOf(v, userId, key), id)].fresh = TRUE])

\* the vault after renameSecretValue(userId, key, id, label)
renameSecretValue(v, userId, key, id, label) ==
  IF id = NoId \/ \A i \in 1..Len(secretsOf(v, userId, key)) : secretsOf(v, userId, key)[i].id # id
    THEN v
    ELSE Stored(v, userId, key,
                [secretsOf(v, userId, key)
                   EXCEPT ![findIndex(secretsOf(v, userId, key), id)].label =
                            IF label = "" THEN @ ELSE label])

\* the entries a vault may hold in the model, over all users and keys
MaxSecrets == 3

RECURSIVE SumOfLengths(_)
SumOfLengths(v) ==
  IF v = {} THEN 0
  ELSE LET e == CHOOSE e \in v : TRUE IN Len(e.arr) + SumOfLengths(v \ {e})

\* a call of writeSecretValue; its id, `sec_${Date.now()}${Math.random()}`, is any id of
\* the model, one in use included
WriteSecret(userId, key, id, value, label) ==
  /\ SumOfLengths(vault) < MaxSecrets
  /\ vault' = writeSecretValue(vault, userId, key, id, value, label)
  /\ UNCHANGED <<generate, store, pg, returned>>

\* a call of deleteSecretValue, with an id or without
DeleteSecret(userId, key, id) ==
  /\ vault' = deleteSecretValue(vault, userId, key, id)
  /\ UNCHANGED <<generate, store, pg, returned>>

\* a call of rotateSecretValue
RotateSecret(userId, key, id) ==
  /\ vault' = rotateSecretValue(vault, userId, key, id)
  /\ UNCHANGED <<generate, store, pg, returned>>

\* a call of renameSecretValue
RenameSecret(userId, key, id, label) ==
  /\ vault' = renameSecretValue(vault, userId, key, id, label)
  /\ UNCHANGED <<generate, store, pg, returned>>

SecretUsers == {"u_1"}

SecretKeys == {"api_key_openai", "api_key_generic"}

SecretIds == {1, 2}

SecretValues == {"k1", "k2"}

SecretLabels == {"", "b"}

InitSecrets ==
  /\ config = Cfg(TRUE, FALSE, 0)
  /\ secrets = Store("", "")
  /\ env = Env("", Empty)
  /\ Start

NextSecrets ==
  \/ \E userId \in SecretUsers, key \in SecretKeys, id \in SecretIds, value \in SecretValues,
        label \in SecretLabels : WriteSecret(userId, key, id, value, label)
  \/ \E userId \in SecretUsers, key \in SecretKeys, id \in SecretIds \cup {NoId} :
       DeleteSecret(userId, key, id)
  \/ \E userId \in SecretUsers, key \in SecretKeys, id \in SecretIds :
       RotateSecret(userId, key, id)
  \/ \E userId \in SecretUsers, key \in SecretKeys, id \in SecretIds, label \in SecretLabels :
       RenameSecret(userId, key, id, label)

SpecSecrets == InitSecrets /\ [][NextSecrets]_vars

(***************************************************************************)
(* C30.                                                                    *)
(***************************************************************************)
ActiveOnes(arr) == {i \in 1..Len(arr) : arr[i].active}

FreshOnes(arr) == {i \in 1..Len(arr) : arr[i].fresh}

\* a stored key has an entry and exactly one active entry, and findSecretValue
\* without an id returns that entry
OneActiveFound(e) ==
  /\ Len(e.arr) >= 1
  /\ Cardinality(ActiveOnes(e.arr)) = 1
  /\ \A i \in ActiveOnes(e.arr) :
       findSecretValue(vault, e.uid, e.key, NoId) = Picked(e.arr, i)

\* C30 as stated: every stored (user, key) has an entry and exactly one active
\* entry, findSecretValue without an id returns it, and it is the entry most
\* recently written or rotated.
C30_AsStated ==
  \A e \in vault : OneActiveFound(e) /\ ActiveOnes(e.arr) = FreshOnes(e.arr)

\* C30: after any sequence of writes, deletes, rotations and renames, every stored
\* (user, key) has an entry and exactly one active entry, a key without entries is
\* absent, and findSecretValue without an id returns the active entry: the entry
\* most recently written or rotated while that entry is stored, and the first entry
\* of the array once it has been deleted.
C30_OneActive ==
  \A e \in vault :
    /\ OneActiveFound(e)
    /\ ActiveOnes(e.arr) = IF FreshOnes(e.arr) # {} THEN FreshOnes(e.arr) ELSE {1}

\* three entries were written under a key and the active one was deleted: the
\* first entry is active, and no entry is the one most recently written or rotated
C30_Witness ==
  \E e \in vault : Len(e.arr) = 2 /\ FreshOnes(e.arr) = {} /\ ActiveOnes(e.arr) = {1}

====
